---- MODULE Spec2Model ----
(***************************************************************************)
(* Duplicate File Finder: the duplicate detection engine (scanner, hasher, *)
(* analyzer), the background task runner and the scan control of the       *)
(* application window.                                                     *)
(*                                                                         *)
(* The specifications:                                                     *)
(*   SpecEngine    one call of find_duplicates on the records of a bounded *)
(*                 file system, with the cancellation flag set at any time;*)
(*   SpecPipeline  scan_task on roots of many directories;                 *)
(*   SpecRunner,   the UI thread (Start Scan, Cancel, the progress poll,   *)
(*   SpecApp       the Tk event queue) and the worker threads it starts;   *)
(*   SpecTree      the roots given as paths of one volume;                 *)
(*   SpecModels    the properties of DuplicateGroup and ScanResult;        *)
(*   SpecDetails   the Details tab: filter, check boxes, delete_selected.  *)
(***************************************************************************)
EXTENDS Integers, Sequences, FiniteSets, TLC

\* ------------------------------------------------------------------ bounds
MaxFiles == 3
MaxTasks == 2
MaxMembers == 3
MaxDirs == 20
MaxGroups == 2

\* --------------------------------------------------------------- constants
MIN_DIRECTORIES == 2
MAX_DIRECTORIES == 3
HASH_PROGRESS_INTERVAL == 20
PROGRESS_INTERVAL == 50
LABEL_FILTER_ALL == "All"
LABEL_FILTER_IDENTICAL == "Identical Copies"
LABEL_FILTER_MODIFIED == "Modified Versions"

None == "None"

\* Optional values other than strings: the empty tuple, or a tuple of one.
NoValue == << >>
Some(x) == << x >>

\* Texts shown to the user, with their arguments.
Text(s) == << s >>

Tasks == 1..MaxTasks
Roots == 1..MAX_DIRECTORIES

\* File names are sequences of characters so that lower() is computed.
FileNames == { <<"F", "T">>, <<"f", "t">>, <<"d", "t">> }

\* File contents, with their sizes and SHA-256 digests.
Contents == { "original", "edited version" }

Size(content) == IF content = "original" THEN 8 ELSE 14

VARIABLES
    fs,                     \* the directory trees on disk, one per root
    pc,                     \* position of each worker in its pipeline
    cancelled,              \* BackgroundTask._cancelled
    finished,               \* BackgroundTask._finished
    directories,            \* roots captured by scan_task's closure
    all_files,              \* scan_task's all_files / find_duplicates' input
    root_i,                 \* scan_task: index i of the root loop
    walk_i,                 \* scan_directory: next directory of os.walk
    records,                \* scan_directory: records of the current root
    hash_i,                 \* hash_candidates: loop index i
    fd_ret,                 \* the return value of find_duplicates
    result,                 \* the return value of task_fn
    error,                  \* the exception task_fn raised
    progress_phase,         \* App._progress_phase
    progress_status,        \* App._progress_status
    progress_fraction,      \* App._progress_fraction, as <<current, total>>
    progress_indeterminate, \* App._progress_indeterminate
    progress_dir_counts,    \* App._progress_dir_counts
    current_task,           \* App._current_task
    button,                 \* which of btn_scan / btn_cancel is packed
    scan_result,            \* App.scan_result
    status_label,           \* ScanProgress._status_label
    events,                 \* Tk's queue of after(0, ...) callbacks
    poll_timers,            \* pending after(_POLL_INTERVAL_MS, _poll_progress)
    started,                \* number of BackgroundTask objects created
    ui_pc,                  \* position of the UI thread inside _start_scan
    observed,               \* history: the worker saw the flag set
    handed,                 \* history: terminal signals each worker handed over
    delivered,              \* history: terminal callbacks run on the UI thread
    reports,                \* history: progress callbacks of the call in progress
    dup_group,              \* a DuplicateGroup whose properties are read
    wasted,                 \* the value wasted_bytes returned for it
    newest,                 \* the value newest_file returned for it
    oldest,                 \* the value oldest_file returned for it
    summary,                \* a ScanResult whose properties are read
    totals,                 \* the values its two total_ properties returned
    selection,              \* the root paths as the user spelled them
    scanned,                \* the records scan_task collected from them
    analysed,               \* the ScanResult scan_task built from them
    list_result,            \* FileListView._result
    list_groups,            \* FileListView._groups, as references into _result
    current_filter,         \* FileListView._current_filter
    checked,                \* FileListView._checked
    trash,                  \* the paths send2trash has moved to the trash
    last_delete             \* history: what the last delete_selected did

workerVars == << pc, cancelled, finished, directories, all_files, root_i, walk_i,
                 records, hash_i, fd_ret, result, error, observed, handed, reports >>
progressVars == << progress_phase, progress_status, progress_fraction,
                   progress_indeterminate, progress_dir_counts >>
uiVars == << current_task, button, scan_result, status_label, events, poll_timers,
             started, ui_pc, delivered >>
modelsVars == << dup_group, wasted, newest, oldest, summary, totals >>
treeVars == << selection, scanned, analysed >>
listVars == << list_result, list_groups, current_filter, checked, trash, last_delete >>
vars == << fs, workerVars, progressVars, uiVars, modelsVars, treeVars, listVars >>

\* ------------------------------------------------------- sequence helpers
\* the positive integers of a finite set in increasing order
Ascending(S) ==
    IF S = {} THEN << >>
    ELSE LET m == CHOOSE x \in S : \A y \in S : y <= x
         IN  SelectSeq([i \in 1..m |-> i], LAMBDA i : i \in S)

\* the indices i of s with Test(s[i]), in increasing order
SelectIdx(s, Test(_)) == SelectSeq([i \in 1..Len(s) |-> i], LAMBDA i : Test(s[i]))

\* the elements of s in order of first occurrence (the key order of a dict)
Distinct(s) ==
    LET first == SelectSeq([i \in 1..Len(s) |-> i],
                           LAMBDA i : \A j \in 1..(i - 1) : s[j] # s[i])
    IN  [k \in 1..Len(first) |-> s[first[k]]]

RECURSIVE FlattenRange(_, _, _)
\* ss[lo] \o ... \o ss[hi]
FlattenRange(ss, lo, hi) ==
    IF lo > hi THEN << >>
    ELSE IF lo = hi THEN ss[lo]
    ELSE LET mid == (lo + hi) \div 2
         IN  FlattenRange(ss, lo, mid) \o FlattenRange(ss, mid + 1, hi)

Flatten(ss) == FlattenRange(ss, 1, Len(ss))

\* ------------------------------------------------------------ str.lower()
LowerChar(c) ==
    CASE c = "F" -> "f"
      [] c = "T" -> "t"
      [] c = "D" -> "d"
      [] OTHER -> c

\* A lower() that keeps the case: C1 tells it from Lower.
LowerKeepingCase(name) == name

Lower(name) == [k \in 1..Len(name) |-> LowerChar(name[k])]

\* ----------------------------------------------------------------- hasher
Sha256Hex(content) ==
    IF content = "original"
    THEN "0682c5f2076f099c34cfdd15a9e063849ed437a49677e6fcc5b4198c76575be5"
    ELSE "f1d573fb88c9bc57060d85715009f3b359a085cf3969332181a440e061873e34"

\* The file on disk behind a record's path.
FileAt(disk, path) == disk[path[1]][path[2]][path[3]]

\* compute_sha256 without its except clause returning None: an unreadable
\* file gets the digest of no bytes. C13 tells it from compute_sha256.
compute_sha256_of_nothing(disk, path) ==
    IF FileAt(disk, path).readable THEN Sha256Hex(FileAt(disk, path).content)
    ELSE "e3b0c44298fc1c149afbf4c8996fb92427ae41e4649b934ca495991b7852b855"

\* compute_sha256: the hex digest, or None when the file cannot be read.
compute_sha256(disk, path) ==
    IF FileAt(disk, path).readable THEN Sha256Hex(FileAt(disk, path).content) ELSE None

\* Python truthiness of Optional[str]
Truthy(h) == h # None /\ h # ""

\* --------------------------------------------------------------- scanner
\* A scanner that reads and hashes each file as it creates the record: C19
\* tells it from FileRecord.
FileRecordHashedAtScan(disk, r, d, j) ==
    [ path |-> << r, d, j >>,
      directory_root |-> r,
      filename |-> disk[r][d][j].filename,
      size |-> Size(disk[r][d][j].content),
      sha256 |-> Sha256Hex(disk[r][d][j].content) ]

\* The FileRecord scan_directory creates for file j of directory d of root r.
FileRecord(disk, r, d, j) ==
    [ path |-> << r, d, j >>,
      directory_root |-> r,
      filename |-> disk[r][d][j].filename,
      size |-> Size(disk[r][d][j].content),
      sha256 |-> None ]

\* A record for every file, stat'ed or not: C15 tells it from DirRecords.
DirRecordsOfAll(disk, r, d) ==
    [j \in 1..Len(disk[r][d]) |-> FileRecord(disk, r, d, j)]

\* The records of one directory: a file whose stat fails is skipped.
DirRecords(disk, r, d) ==
    LET ok == SelectIdx(disk[r][d], LAMBDA e : e.stat_ok)
    IN  [k \in 1..Len(ok) |-> FileRecord(disk, r, d, ok[k])]

\* ------------------------------------------------------------- analyzer
\* Pass 1: by_name, as the sequence of its keys and the members of a key.
ByNameKeys(files) == Distinct([k \in 1..Len(files) |-> Lower(files[k].filename)])

NameGroup(files, name) == SelectIdx(files, LAMBDA f : Lower(f.filename) = name)

DirsOf(files, idxs) == { files[idxs[k]].directory_root : k \in 1..Len(idxs) }

\* A cross-root filter that keeps every name-group: C2 tells it from IsCandidate.
IsCandidateAnyGroup(files, name) == Cardinality(DirsOf(files, NameGroup(files, name))) >= 1

\* A cross-root filter that looks at the first two members only: C12 tells
\* it from IsCandidate.
IsCandidateByFirstTwo(files, name) ==
    LET idxs == NameGroup(files, name)
    IN  Len(idxs) >= 2 /\ files[idxs[1]].directory_root # files[idxs[2]].directory_root

IsCandidate(files, name) == Cardinality(DirsOf(files, NameGroup(files, name))) >= 2

\* candidates: the keys of by_name whose group spans two or more roots.
CandidateKeys(files) ==
    LET keys == ByNameKeys(files)
        kept == SelectIdx(keys, LAMBDA n : IsCandidate(files, n))
    IN  [k \in 1..Len(kept) |-> keys[kept[k]]]

\* files_to_hash: references (indices into files) in candidate order.
FilesToHash(files) ==
    LET keys == CandidateKeys(files)
    IN  Flatten([k \in 1..Len(keys) |-> NameGroup(files, keys[k])])

\* by_hash of one name-group: its keys, and the members holding a key.
ByHashKeys(files, idxs) ==
    LET hashed == SelectIdx(idxs, LAMBDA i : Truthy(files[i].sha256))
    IN  Distinct([k \in 1..Len(hashed) |-> files[idxs[hashed[k]]].sha256])

HashGroup(files, idxs, h) ==
    LET at == SelectIdx(idxs, LAMBDA i : Truthy(files[i].sha256) /\ files[i].sha256 = h)
    IN  [k \in 1..Len(at) |-> idxs[at[k]]]

\* A DuplicateGroup whose files are the records at the indices members.
DuplicateGroup(type, files, members, name, h) ==
    [ match_type |-> type,
      files |-> [k \in 1..Len(members) |-> files[members[k]]],
      shared_name |-> name,
      hash_value |-> h ]

\* Binary groups emitted only for a name-group with a single digest: C4 tells
\* it from BinaryGroupsOf.
BinaryGroupsUnlessDiverged(files, name) ==
    LET idxs == NameGroup(files, name)
        keys == ByHashKeys(files, idxs)
    IN  IF Len(keys) = 1 /\ Cardinality(DirsOf(files, HashGroup(files, idxs, keys[1]))) >= 2
        THEN << DuplicateGroup("BINARY_DUPLICATE", files,
                               HashGroup(files, idxs, keys[1]), name, keys[1]) >>
        ELSE << >>

\* A binary group for every digest of the name-group, whatever the roots of
\* its holders: C20 tells it from BinaryGroupsOf.
BinaryGroupsOfAnySpan(files, name) ==
    LET idxs == NameGroup(files, name)
        keys == ByHashKeys(files, idxs)
    IN  [k \in 1..Len(keys) |->
            DuplicateGroup("BINARY_DUPLICATE", files,
                           HashGroup(files, idxs, keys[k]), name, keys[k])]

\* The BINARY_DUPLICATE groups of one candidate name-group.
BinaryGroupsOf(files, name) ==
    LET idxs == NameGroup(files, name)
        keys == ByHashKeys(files, idxs)
        kept == SelectIdx(keys,
                    LAMBDA h : Cardinality(DirsOf(files, HashGroup(files, idxs, h))) >= 2)
    IN  [k \in 1..Len(kept) |->
            DuplicateGroup("BINARY_DUPLICATE", files,
                           HashGroup(files, idxs, keys[kept[k]]), name, keys[kept[k]])]

\* A DIVERGED group of the hashed members only: C3 tells it from
\* DivergedGroupsOf.
DivergedGroupsOfHashed(files, name) ==
    LET idxs == NameGroup(files, name)
        hashed == SelectIdx(idxs, LAMBDA i : Truthy(files[i].sha256))
        all_hashes == { files[idxs[k]].sha256 : k \in 1..Len(idxs) } \ { None, "" }
    IN  IF Cardinality(all_hashes) > 1
        THEN << DuplicateGroup("DIVERGED", files, [k \in 1..Len(hashed) |-> idxs[hashed[k]]],
                               name, None) >>
        ELSE << >>

\* The DIVERGED group of one candidate name-group, if it has one.
DivergedGroupsOf(files, name) ==
    LET idxs == NameGroup(files, name)
        all_hashes == { files[idxs[k]].sha256 : k \in 1..Len(idxs) } \ { None, "" }
    IN  IF Cardinality(all_hashes) > 1
        THEN << DuplicateGroup("DIVERGED", files, idxs, name, None) >>
        ELSE << >>

\* Pass 2 after hashing: (binary_groups, diverged_groups).
Classify(files) ==
    LET keys == CandidateKeys(files)
    IN  << Flatten([k \in 1..Len(keys) |-> BinaryGroupsOf(files, keys[k])]),
           Flatten([k \in 1..Len(keys) |-> DivergedGroupsOf(files, keys[k])]) >>

\* ------------------------------------------------- the worker's pipeline
NoGroups == << << >>, << >> >>

\* dir_progress(count) of root index i: replace the entry of i, or append it.
dir_progress(counts, i, count, name) ==
    LET replaced == [k \in 1..Len(counts) |->
                        IF counts[k][1] # i THEN counts[k] ELSE << i, count, name >>]
    IN  IF \E k \in 1..Len(replaced) : replaced[k][1] = i THEN replaced
        ELSE Append(replaced, << i, count, name >>)

\* scan_task, lines 162-172: the head of the loop over the roots; before the
\* first root the thread has announced phase 1.
RootCheck(t) ==
    /\ pc[t] = "root_check"
    /\ IF root_i[t] = 1
       THEN /\ progress_phase' = Text("Phase 1 of 2: Scanning files...")
            /\ progress_indeterminate' = TRUE
       ELSE UNCHANGED << progress_phase, progress_indeterminate >>
    /\ IF cancelled[t]
       THEN /\ result' = [result EXCEPT ![t] = NoValue]
            /\ observed' = [observed EXCEPT ![t] = TRUE]
            /\ pc' = [pc EXCEPT ![t] = "run_finished"]
            /\ UNCHANGED << progress_status, walk_i, records, reports >>
       ELSE /\ progress_status' = << "Scanning", directories[t][root_i[t]] >>
            /\ walk_i' = [walk_i EXCEPT ![t] = 1]
            /\ records' = [records EXCEPT ![t] = << >>]
            /\ reports' = [reports EXCEPT ![t] = << >>]
            /\ pc' = [pc EXCEPT ![t] = "walk"]
            /\ UNCHANGED << result, observed >>
    /\ UNCHANGED << fs, modelsVars, treeVars, listVars, cancelled, finished, directories, all_files, root_i,
                    hash_i, fd_ret, error, handed, progress_fraction,
                    progress_dir_counts, uiVars >>

\* A report after every directory that holds a file: C18 tells it from
\* WalkReports.
WalkReportsEachDirectory(old, found) ==
    IF found > 0 THEN { old + found } ELSE {}

\* The counts scan_directory reports while it collects the records
\* old + 1 .. old + found of a directory: every multiple of the interval.
WalkReports(old, found) ==
    { c \in (old + 1)..(old + found) : c % PROGRESS_INTERVAL = 0 }

\* A walk that never polls the cancellation predicate: C14 tells it from
\* WalkStops.
WalkStopsAtEnd(t) ==
    walk_i[t] > Len(fs[directories[t][root_i[t]]])

\* scan_directory, lines 29-31: the walk is over, or the poll of the
\* cancellation predicate at the head of a directory returns true.
WalkStops(t) ==
    walk_i[t] > Len(fs[directories[t][root_i[t]]]) \/ cancelled[t]

\* scan_directory, lines 29-56, and scan_task, line 188: one directory of
\* os.walk is polled for cancellation and collected; when the walk is over
\* or the flag is seen, the final callback is made and scan_task extends
\* all_files with the records.
WalkDir(t) ==
    /\ pc[t] = "walk"
    /\ LET root == directories[t][root_i[t]]
           stop == WalkStops(t)
           found == IF stop THEN << >> ELSE DirRecords(fs, root, walk_i[t])
           hits == WalkReports(Len(records[t]), Len(found))
           calls == [k \in 1..Cardinality(hits) |-> << Ascending(hits)[k] >>]
           collected == records[t] \o found
           counts == IF hits = {} THEN progress_dir_counts
                     ELSE dir_progress(progress_dir_counts, root_i[t] - 1,
                              CHOOSE c \in hits : \A x \in hits : x <= c, root)
       IN  IF stop \/ walk_i[t] = Len(fs[root])
           THEN /\ progress_dir_counts' =
                       dir_progress(counts, root_i[t] - 1, Len(collected), root)
                /\ reports' = [reports EXCEPT ![t] = @ \o calls \o << << Len(collected) >> >>]
                /\ all_files' = [all_files EXCEPT ![t] = @ \o collected]
                /\ observed' = [observed EXCEPT ![t] = @ \/ cancelled[t]]
                /\ records' = [records EXCEPT ![t] = << >>]
                /\ root_i' = [root_i EXCEPT ![t] = @ + 1]
                /\ pc' = [pc EXCEPT ![t] =
                            IF root_i[t] < Len(directories[t])
                            THEN "root_check" ELSE "phase_check"]
                /\ UNCHANGED walk_i
           ELSE /\ records' = [records EXCEPT ![t] = collected]
                /\ walk_i' = [walk_i EXCEPT ![t] = @ + 1]
                /\ progress_dir_counts' = counts
                /\ reports' = [reports EXCEPT ![t] = @ \o calls]
                /\ UNCHANGED << all_files, observed, root_i, pc >>
    /\ UNCHANGED << fs, modelsVars, treeVars, listVars, cancelled, finished, directories, hash_i, fd_ret,
                    result, error, handed, progress_phase, progress_status,
                    progress_fraction, progress_indeterminate, uiVars >>

\* find_duplicates, lines 26-41: pass 1 is done and hash_candidates is
\* entered; its loop is skipped when there is nothing to hash.
HashEntry(files) == IF Len(FilesToHash(files)) > 0 THEN "hash" ELSE "cancel_check"

\* A phase transition that raises when it sees the flag: C10 tells it from
\* PhaseCheck.
PhaseCheckRaising(t) ==
    /\ pc[t] = "phase_check"
    /\ IF cancelled[t]
       THEN /\ error' = [error EXCEPT ![t] = "Cancelled"]
            /\ observed' = [observed EXCEPT ![t] = TRUE]
            /\ pc' = [pc EXCEPT ![t] = "run_except"]
            /\ UNCHANGED << progress_phase, progress_status, progress_fraction,
                            progress_indeterminate, hash_i, reports >>
       ELSE /\ progress_indeterminate' = FALSE
            /\ progress_fraction' = << 0, 1 >>
            /\ progress_phase' = Text("Phase 2 of 2: Comparing files...")
            /\ progress_status' = << "files found", Len(all_files[t]) >>
            /\ hash_i' = [hash_i EXCEPT ![t] = 0]
            /\ reports' = [reports EXCEPT ![t] = << >>]
            /\ pc' = [pc EXCEPT ![t] = HashEntry(all_files[t])]
            /\ UNCHANGED << error, observed >>
    /\ UNCHANGED << fs, modelsVars, treeVars, listVars, cancelled, finished, directories, all_files, root_i, walk_i,
                    records, fd_ret, result, handed, progress_dir_counts, uiVars >>

\* A phase transition without the check of line 192: C24 tells it from
\* PhaseCheck.
PhaseCheckIgnoringFlag(t) ==
    /\ pc[t] = "phase_check"
    /\ progress_indeterminate' = FALSE
    /\ progress_fraction' = << 0, 1 >>
    /\ progress_phase' = Text("Phase 2 of 2: Comparing files...")
    /\ progress_status' = << "files found", Len(all_files[t]) >>
    /\ hash_i' = [hash_i EXCEPT ![t] = 0]
    /\ reports' = [reports EXCEPT ![t] = << >>]
    /\ pc' = [pc EXCEPT ![t] = HashEntry(all_files[t])]
    /\ UNCHANGED << fs, modelsVars, treeVars, listVars, cancelled, finished, directories,
                    all_files, root_i, walk_i, records, fd_ret, result, error, observed,
                    handed, progress_dir_counts, uiVars >>

\* scan_task, lines 190-215: the phase transition from scanning to hashing,
\* and the call of find_duplicates up to the loop of hash_candidates.
PhaseCheck(t) ==
    /\ pc[t] = "phase_check"
    /\ IF cancelled[t]
       THEN /\ result' = [result EXCEPT ![t] = NoValue]
            /\ observed' = [observed EXCEPT ![t] = TRUE]
            /\ pc' = [pc EXCEPT ![t] = "run_finished"]
            /\ UNCHANGED << progress_phase, progress_status, progress_fraction,
                            progress_indeterminate, hash_i, reports >>
       ELSE /\ progress_indeterminate' = FALSE
            /\ progress_fraction' = << 0, 1 >>
            /\ progress_phase' = Text("Phase 2 of 2: Comparing files...")
            /\ progress_status' = << "files found", Len(all_files[t]) >>
            /\ hash_i' = [hash_i EXCEPT ![t] = 0]
            /\ reports' = [reports EXCEPT ![t] = << >>]
            /\ pc' = [pc EXCEPT ![t] = HashEntry(all_files[t])]
            /\ UNCHANGED << result, observed >>
    /\ UNCHANGED << fs, modelsVars, treeVars, listVars, cancelled, finished, directories, all_files, root_i, walk_i,
                    records, fd_ret, error, handed, progress_dir_counts, uiVars >>

\* find_duplicates called on its own, lines 26-41: pass 1 and the call of
\* hash_candidates.
FindDuplicatesBegin(t) ==
    /\ pc[t] = "find_duplicates"
    /\ hash_i' = [hash_i EXCEPT ![t] = 0]
    /\ reports' = [reports EXCEPT ![t] = << >>]
    /\ pc' = [pc EXCEPT ![t] = HashEntry(all_files[t])]
    /\ UNCHANGED << fs, modelsVars, treeVars, listVars, cancelled, finished, directories, all_files, root_i, walk_i,
                    records, fd_ret, result, error, observed, handed, progressVars, uiVars >>

\* A report at every interval but none for the last record: C17 tells it
\* from ReportsProgress.
ReportsAtIntervalsOnly(current, total) ==
    current % HASH_PROGRESS_INTERVAL = 0

\* The condition under which hash_candidates reports progress, line 47.
ReportsProgress(current, total) ==
    current % HASH_PROGRESS_INTERVAL = 0 \/ current = total

\* A loop that looks at the flag before its first record only: C16 tells it
\* from HashStep.
HashStepIgnoringFlag(t) ==
    /\ pc[t] = "hash"
    /\ LET to_hash == FilesToHash(all_files[t])
           total == Len(to_hash)
           current == hash_i[t] + 1
           at == to_hash[current]
       IN  IF cancelled[t] /\ hash_i[t] = 0
           THEN /\ observed' = [observed EXCEPT ![t] = TRUE]
                /\ pc' = [pc EXCEPT ![t] = "cancel_check"]
                /\ UNCHANGED << all_files, hash_i, progress_fraction,
                                progress_status, reports >>
           ELSE /\ all_files' = [all_files EXCEPT ![t][at].sha256 =
                                    compute_sha256(fs, all_files[t][at].path)]
                /\ hash_i' = [hash_i EXCEPT ![t] = current]
                /\ IF ReportsProgress(current, total)
                   THEN /\ progress_fraction' = << current, total >>
                        /\ progress_status' = << "Comparing file", current, total >>
                        /\ reports' = [reports EXCEPT ![t] = Append(@, << current, total >>)]
                   ELSE UNCHANGED << progress_fraction, progress_status, reports >>
                /\ pc' = [pc EXCEPT ![t] =
                            IF current = total THEN "cancel_check" ELSE "hash"]
                /\ UNCHANGED observed
    /\ UNCHANGED << fs, modelsVars, treeVars, listVars, cancelled, finished, directories, root_i, walk_i, records,
                    fd_ret, result, error, handed, progress_phase,
                    progress_indeterminate, progress_dir_counts, uiVars >>

\* hash_candidates, lines 42-48: one iteration of the loop, with the
\* progress callback hash_progress of scan_task, lines 205-209.
HashStep(t) ==
    /\ pc[t] = "hash"
    /\ LET to_hash == FilesToHash(all_files[t])
           total == Len(to_hash)
           current == hash_i[t] + 1
           at == to_hash[current]
       IN  IF cancelled[t]
           THEN /\ observed' = [observed EXCEPT ![t] = TRUE]
                /\ pc' = [pc EXCEPT ![t] = "cancel_check"]
                /\ UNCHANGED << all_files, hash_i, progress_fraction,
                                progress_status, reports >>
           ELSE /\ all_files' = [all_files EXCEPT ![t][at].sha256 =
                                    compute_sha256(fs, all_files[t][at].path)]
                /\ hash_i' = [hash_i EXCEPT ![t] = current]
                /\ IF ReportsProgress(current, total)
                   THEN /\ progress_fraction' = << current, total >>
                        /\ progress_status' = << "Comparing file", current, total >>
                        /\ reports' = [reports EXCEPT ![t] = Append(@, << current, total >>)]
                   ELSE UNCHANGED << progress_fraction, progress_status, reports >>
                /\ pc' = [pc EXCEPT ![t] =
                            IF current = total THEN "cancel_check" ELSE "hash"]
                /\ UNCHANGED observed
    /\ UNCHANGED << fs, modelsVars, treeVars, listVars, cancelled, finished, directories, root_i, walk_i, records,
                    fd_ret, result, error, handed, progress_phase,
                    progress_indeterminate, progress_dir_counts, uiVars >>

RECURSIVE SumSizesRange(_, _, _)
\* files[lo].size + ... + files[hi].size
SumSizesRange(files, lo, hi) ==
    IF lo > hi THEN 0
    ELSE IF lo = hi THEN files[lo].size
    ELSE LET mid == (lo + hi) \div 2
         IN  SumSizesRange(files, lo, mid) + SumSizesRange(files, mid + 1, hi)

SumSizes(files) == SumSizesRange(files, 1, Len(files))

FilesOfRoot(files, r) ==
    LET at == SelectIdx(files, LAMBDA f : f.directory_root = r)
    IN  [k \in 1..Len(at) |-> files[at[k]]]

\* The ScanResult that scan_task builds, lines 218-237.
ScanResult(dirs, groups, files) ==
    LET roots == { files[k].directory_root : k \in 1..Len(files) }
    IN  [ directories |-> dirs,
          binary_duplicates |-> groups[1],
          diverged_files |-> groups[2],
          total_files |-> Len(files),
          files_per_directory |-> [r \in roots |-> Len(FilesOfRoot(files, r))],
          total_size_per_directory |-> [r \in roots |-> SumSizes(FilesOfRoot(files, r))] ]

\* Pass 2 without the check after hashing: C5 tells it from
\* find_duplicates_return.
find_duplicates_unchecked(files, flag) == Classify(files)

\* find_duplicates, lines 43-81: the check after hashing, then pass 2.
find_duplicates_return(files, flag) == IF flag THEN NoGroups ELSE Classify(files)

\* find_duplicates, lines 43-81, returns; scan_task, lines 216-237, builds
\* the summary and returns the ScanResult.
FindDuplicatesClassify(t) ==
    /\ pc[t] = "cancel_check"
    /\ LET ret == find_duplicates_return(all_files[t], cancelled[t])
       IN  /\ fd_ret' = [fd_ret EXCEPT ![t] = Some(ret)]
           /\ result' = [result EXCEPT ![t] =
                            Some(ScanResult(directories[t], ret, all_files[t]))]
    /\ observed' = [observed EXCEPT ![t] = @ \/ cancelled[t]]
    /\ pc' = [pc EXCEPT ![t] = "run_finished"]
    /\ UNCHANGED << fs, modelsVars, treeVars, listVars, reports, cancelled, finished, directories, all_files, root_i,
                    walk_i, records, hash_i, error, handed, progressVars, uiVars >>

\* An unexpected exception (not a per-file OSError) leaves task_fn while it
\* scans or hashes.
Raise(t) ==
    /\ pc[t] \in { "walk", "hash" }
    /\ error' = [error EXCEPT ![t] = "Exception"]
    /\ pc' = [pc EXCEPT ![t] = "run_except"]
    /\ UNCHANGED << fs, modelsVars, treeVars, listVars, reports, cancelled, finished, directories, all_files, root_i, walk_i,
                    records, hash_i, fd_ret, result, observed, handed, progressVars, uiVars >>

\* ------------------------------------------------------- BackgroundTask
\* BackgroundTask.cancel, lines 32-33.
cancel(t) == cancelled' = [cancelled EXCEPT ![t] = TRUE]

\* The worker thread ends: the locals of _run, of scan_task and of its
\* callees are dropped (the ScanResult keeps the grouped records only).
ThreadExit(t) ==
    /\ pc' = [pc EXCEPT ![t] = "done"]
    /\ all_files' = [all_files EXCEPT ![t] = << >>]
    /\ records' = [records EXCEPT ![t] = << >>]
    /\ root_i' = [root_i EXCEPT ![t] = 0]
    /\ walk_i' = [walk_i EXCEPT ![t] = 0]
    /\ hash_i' = [hash_i EXCEPT ![t] = 0]
    /\ fd_ret' = [fd_ret EXCEPT ![t] = NoValue]
    /\ result' = [result EXCEPT ![t] = NoValue]
    /\ reports' = [reports EXCEPT ![t] = << >>]

\* root.after(0, callback, arg), called from the worker thread.
after0(callback, t, arg) ==
    /\ events' = Append(events, [ callback |-> callback, task |-> t, arg |-> arg ])
    /\ handed' = [handed EXCEPT ![t] = Append(@, callback)]

\* _run scheduling on_complete before it sets the finished flag: C9 tells it
\* from RunReturned.
RunReturnedSignalFirst(t) ==
    \/ /\ pc[t] = "run_finished"
       /\ IF ~cancelled[t]
          THEN after0("on_complete", t, result[t])
          ELSE UNCHANGED << events, handed >>
       /\ pc' = [pc EXCEPT ![t] = "run_signal"]
       /\ UNCHANGED << fs, modelsVars, treeVars, listVars, reports, cancelled, finished, directories, all_files, root_i, walk_i,
                       records, hash_i, fd_ret, result, error, observed, progressVars,
                       current_task, button, scan_result, status_label, poll_timers,
                       started, ui_pc, delivered >>
    \/ /\ pc[t] = "run_signal"
       /\ finished' = [finished EXCEPT ![t] = TRUE]
       /\ ThreadExit(t)
       /\ UNCHANGED << fs, modelsVars, treeVars, listVars, cancelled, directories, error, observed, handed,
                       progressVars, uiVars >>

\* _run, lines 46-48, one statement a step: task_fn has returned, the
\* finished flag is set, then on_complete is scheduled unless the task was
\* cancelled, and the thread ends.
RunReturned(t) ==
    \/ /\ pc[t] = "run_finished"
       /\ finished' = [finished EXCEPT ![t] = TRUE]
       /\ pc' = [pc EXCEPT ![t] = "run_signal"]
       /\ UNCHANGED << fs, modelsVars, treeVars, listVars, reports, cancelled, directories, all_files, root_i, walk_i, records,
                       hash_i, fd_ret, result, error, observed, handed, progressVars,
                       uiVars >>
    \/ /\ pc[t] = "run_signal"
       /\ IF ~cancelled[t]
          THEN after0("on_complete", t, result[t])
          ELSE UNCHANGED << events, handed >>
       /\ ThreadExit(t)
       /\ UNCHANGED << fs, modelsVars, treeVars, listVars, cancelled, finished, directories, error, observed,
                       progressVars, current_task, button, scan_result, status_label,
                       poll_timers, started, ui_pc, delivered >>

\* _run scheduling on_complete after on_error: C7 tells it from RunRaised.
RunRaisedThenCompletes(t) ==
    \/ /\ pc[t] = "run_except"
       /\ finished' = [finished EXCEPT ![t] = TRUE]
       /\ pc' = [pc EXCEPT ![t] = "run_error"]
       /\ UNCHANGED << fs, modelsVars, treeVars, listVars, reports, cancelled, directories, all_files, root_i, walk_i, records,
                       hash_i, fd_ret, result, error, observed, handed, progressVars,
                       uiVars >>
    \/ /\ pc[t] = "run_error"
       /\ events' = events \o << [ callback |-> "on_error", task |-> t, arg |-> error[t] ],
                                 [ callback |-> "on_complete", task |-> t, arg |-> result[t] ] >>
       /\ handed' = [handed EXCEPT ![t] = @ \o << "on_error", "on_complete" >>]
       /\ ThreadExit(t)
       /\ UNCHANGED << fs, modelsVars, treeVars, listVars, cancelled, finished, directories, error, observed,
                       progressVars, current_task, button, scan_result, status_label,
                       poll_timers, started, ui_pc, delivered >>

\* An except clause that schedules on_error without setting the finished
\* flag: C27 tells it from RunRaised.
RunRaisedUnfinished(t) ==
    \/ /\ pc[t] = "run_except"
       /\ pc' = [pc EXCEPT ![t] = "run_error"]
       /\ UNCHANGED << fs, modelsVars, treeVars, listVars, reports, cancelled, finished,
                       directories, all_files, root_i, walk_i, records, hash_i, fd_ret,
                       result, error, observed, handed, progressVars, uiVars >>
    \/ /\ pc[t] = "run_error"
       /\ after0("on_error", t, error[t])
       /\ ThreadExit(t)
       /\ UNCHANGED << fs, modelsVars, treeVars, listVars, cancelled, finished, directories,
                       error, observed, progressVars, current_task, button, scan_result,
                       status_label, poll_timers, started, ui_pc, delivered >>

\* _run, lines 49-52, one statement a step: task_fn has raised, the finished
\* flag is set, then on_error is scheduled, and the thread ends.
RunRaised(t) ==
    \/ /\ pc[t] = "run_except"
       /\ finished' = [finished EXCEPT ![t] = TRUE]
       /\ pc' = [pc EXCEPT ![t] = "run_error"]
       /\ UNCHANGED << fs, modelsVars, treeVars, listVars, reports, cancelled, directories, all_files, root_i, walk_i, records,
                       hash_i, fd_ret, result, error, observed, handed, progressVars,
                       uiVars >>
    \/ /\ pc[t] = "run_error"
       /\ after0("on_error", t, error[t])
       /\ ThreadExit(t)
       /\ UNCHANGED << fs, modelsVars, treeVars, listVars, cancelled, finished, directories, error, observed,
                       progressVars, current_task, button, scan_result, status_label,
                       poll_timers, started, ui_pc, delivered >>

\* ------------------------------------------------------------ the window
\* The directory selections get_directories can return.
DirChoices == { << 1 >>, << 1, 2 >> }

\* _poll_progress, lines 118-138, on the UI thread.
poll_progress(task, timers) ==
    IF task = 0
    THEN /\ poll_timers' = timers
         /\ UNCHANGED status_label
    ELSE /\ status_label' = progress_status
         /\ poll_timers' = IF finished[task] THEN timers ELSE timers + 1

\* _start_scan, lines 142-245: the click on Start Scan, up to the start of
\* the worker thread.
StartScan(dirs) ==
    /\ ui_pc = "idle"
    /\ button = "scan"
    /\ IF Len(dirs) < MIN_DIRECTORIES
       THEN /\ status_label' = Text("Select at least 2 directories to scan.")
            /\ UNCHANGED << pc, root_i, directories, progressVars, current_task,
                            button, started, ui_pc >>
       ELSE /\ started < MaxTasks
            /\ button' = "cancel"
            /\ status_label' = Text("Ready")
            /\ progress_phase' = Text("")
            /\ progress_status' = Text("")
            /\ progress_fraction' = << 0, 1 >>
            /\ progress_indeterminate' = FALSE
            /\ progress_dir_counts' = << >>
            /\ started' = started + 1
            /\ current_task' = started + 1
            /\ directories' = [directories EXCEPT ![started + 1] = dirs]
            /\ pc' = [pc EXCEPT ![started + 1] = "root_check"]
            /\ root_i' = [root_i EXCEPT ![started + 1] = 1]
            /\ ui_pc' = "start_poll"
    /\ UNCHANGED << fs, modelsVars, treeVars, listVars, reports, cancelled, finished, all_files, walk_i, records,
                    hash_i, fd_ret, result, error, observed, handed, scan_result,
                    events, poll_timers, delivered >>

\* _start_scan, line 246: _start_progress_poll.
StartPoll ==
    /\ ui_pc = "start_poll"
    /\ poll_progress(current_task, poll_timers)
    /\ ui_pc' = "idle"
    /\ UNCHANGED << fs, modelsVars, treeVars, listVars, workerVars, progressVars, current_task, button,
                    scan_result, events, started, delivered >>

\* The timer after(_POLL_INTERVAL_MS, self._poll_progress) fires.
PollTimer ==
    /\ ui_pc = "idle"
    /\ poll_timers > 0
    /\ poll_progress(current_task, poll_timers - 1)
    /\ UNCHANGED << fs, modelsVars, treeVars, listVars, workerVars, progressVars, current_task, button,
                    scan_result, events, started, ui_pc, delivered >>

\* _cancel_scan, lines 248-254: the click on Cancel.
CancelScan ==
    /\ ui_pc = "idle"
    /\ button = "cancel"
    /\ IF current_task # 0
       THEN cancel(current_task)
       ELSE UNCHANGED cancelled
    /\ current_task' = 0
    /\ button' = "scan"
    /\ status_label' = Text("Scan cancelled.")
    /\ UNCHANGED << fs, modelsVars, treeVars, listVars, reports, pc, finished, directories, all_files, root_i, walk_i, records,
                    hash_i, fd_ret, result, error, observed, handed, progressVars, scan_result, events, poll_timers, started, ui_pc,
                    delivered >>

\* _on_scan_complete, lines 261-281.
on_scan_complete(res) ==
    /\ current_task' = 0
    /\ button' = "scan"
    /\ IF res = NoValue
       THEN /\ status_label' = Text("Scan cancelled.")
            /\ UNCHANGED scan_result
       ELSE /\ scan_result' = res
            /\ status_label' = << "Done!", res[1].total_files,
                                  Len(res[1].binary_duplicates),
                                  Len(res[1].diverged_files) >>

\* _on_scan_error, lines 296-300.
on_scan_error(err) ==
    /\ current_task' = 0
    /\ button' = "scan"
    /\ status_label' = << "Error", err >>
    /\ UNCHANGED scan_result

\* Tk runs the oldest callback scheduled with after(0, ...).
DeliverEvent ==
    /\ ui_pc = "idle"
    /\ events # << >>
    /\ LET e == Head(events)
       IN  /\ IF e.callback = "on_complete"
              THEN on_scan_complete(e.arg)
              ELSE on_scan_error(e.arg)
           /\ delivered' = [delivered EXCEPT ![e.task] = Append(@, e.callback)]
    /\ events' = Tail(events)
    /\ UNCHANGED << fs, modelsVars, treeVars, listVars, workerVars, progressVars, poll_timers, started,
                    ui_pc >>

\* -------------------------------------------------------- specifications
InitIdle ==
    /\ pc = [t \in Tasks |-> "idle"]
    /\ cancelled = [t \in Tasks |-> FALSE]
    /\ finished = [t \in Tasks |-> FALSE]
    /\ directories = [t \in Tasks |-> << >>]
    /\ all_files = [t \in Tasks |-> << >>]
    /\ root_i = [t \in Tasks |-> 0]
    /\ walk_i = [t \in Tasks |-> 0]
    /\ records = [t \in Tasks |-> << >>]
    /\ hash_i = [t \in Tasks |-> 0]
    /\ fd_ret = [t \in Tasks |-> NoValue]
    /\ result = [t \in Tasks |-> NoValue]
    /\ error = [t \in Tasks |-> None]
    /\ reports = [t \in Tasks |-> << >>]
    /\ observed = [t \in Tasks |-> FALSE]
    /\ handed = [t \in Tasks |-> << >>]
    /\ delivered = [t \in Tasks |-> << >>]
    /\ progress_phase = Text("")
    /\ progress_status = Text("")
    /\ progress_fraction = << 0, 1 >>
    /\ progress_indeterminate = FALSE
    /\ progress_dir_counts = << >>
    /\ current_task = 0
    /\ button = "scan"
    /\ scan_result = NoValue
    /\ status_label = Text("Ready")
    /\ events = << >>
    /\ poll_timers = 0
    /\ started = 0
    /\ ui_pc = "idle"

\* No DuplicateGroup or ScanResult is under study on its own.
InitNoGroup ==
    /\ dup_group = NoValue
    /\ wasted = NoValue
    /\ newest = NoValue
    /\ oldest = NoValue
    /\ summary = NoValue
    /\ totals = NoValue

\* No roots have been spelled out.
InitNoTree ==
    /\ selection = << >>
    /\ scanned = NoValue
    /\ analysed = NoValue

\* The Details tab has been given no result.
InitNoList ==
    /\ list_result = NoValue
    /\ list_groups = << >>
    /\ current_filter = LABEL_FILTER_ALL
    /\ checked = {}
    /\ trash = {}
    /\ last_delete = NoValue

File(name, content, readable, stat_ok) ==
    [ filename |-> name, content |-> content, readable |-> readable, stat_ok |-> stat_ok ]

\* The directory trees the window is run on.
AppDisk ==
    << << << File(<<"f", "t">>, "original", TRUE, TRUE),
             File(<<"d", "t">>, "edited version", TRUE, TRUE) >> >>,
       << << File(<<"F", "T">>, "original", TRUE, TRUE) >> >>,
       << << >> >> >>

InitApp ==
    /\ fs = AppDisk
    /\ InitIdle
    /\ InitNoGroup
    /\ InitNoTree
    /\ InitNoList

Worker(t) ==
    \/ RootCheck(t)
    \/ WalkDir(t)
    \/ PhaseCheck(t)
    \/ HashStep(t)
    \/ FindDuplicatesClassify(t)
    \/ Raise(t)
    \/ RunReturned(t)
    \/ RunRaised(t)

\* The window without its progress timer: _poll_progress reads the shared
\* state and writes the status label and its own timer only.
NextRunner ==
    \/ \E dirs \in DirChoices : StartScan(dirs)
    \/ StartPoll
    \/ CancelScan
    \/ DeliverEvent
    \/ \E t \in Tasks : Worker(t)

SpecRunner == InitApp /\ [][NextRunner]_vars

NextApp ==
    \/ NextRunner
    \/ PollTimer

SpecApp == InitApp /\ [][NextApp]_vars

\* The worker threads keep running and their I/O calls return; the UI thread
\* finishes the handler it is in, and Tk fires the timers and runs the
\* callbacks that are due.
SpecAppFair ==
    /\ SpecApp
    /\ WF_vars(\E t \in Tasks : Worker(t))
    /\ WF_vars(StartPoll)
    /\ WF_vars(PollTimer)
    /\ WF_vars(DeliverEvent)

\* The files a directory can hold: distinct names, any readable content or
\* an unreadable file.
Entries ==
    { File(n, c, TRUE, TRUE) : n \in FileNames, c \in Contents }
        \cup { File(n, "original", FALSE, TRUE) : n \in FileNames }

Listings(k) ==
    { l \in [1..k -> Entries] :
        \A i, j \in 1..k : l[i].filename = l[j].filename => i = j }

\* Three roots of one directory each, holding at most MaxFiles files.
EngineDisks ==
    UNION { UNION { UNION {
        { << << a >>, << b >>, << c >> >> :
            a \in Listings(n1), b \in Listings(n2), c \in Listings(n3) }
        : n3 \in 0..(MaxFiles - n1 - n2) }
        : n2 \in 0..(MaxFiles - n1) }
        : n1 \in 0..MaxFiles }

\* The records of an uncancelled scan of the roots dirs, in scan order.
ScanAll(disk, dirs) ==
    Flatten([k \in 1..Len(dirs) |->
        Flatten([d \in 1..Len(disk[dirs[k]]) |-> DirRecords(disk, dirs[k], d)])])

\* find_duplicates is called on the records of a scan of three roots.
InitEngine ==
    /\ fs \in EngineDisks
    /\ pc = [t \in Tasks |-> IF t = 1 THEN "find_duplicates" ELSE "idle"]
    /\ cancelled = [t \in Tasks |-> FALSE]
    /\ finished = [t \in Tasks |-> FALSE]
    /\ directories = [t \in Tasks |-> IF t = 1 THEN << 1, 2, 3 >> ELSE << >>]
    /\ all_files = [t \in Tasks |-> IF t = 1 THEN ScanAll(fs, << 1, 2, 3 >>) ELSE << >>]
    /\ root_i = [t \in Tasks |-> 0]
    /\ walk_i = [t \in Tasks |-> 0]
    /\ records = [t \in Tasks |-> << >>]
    /\ hash_i = [t \in Tasks |-> 0]
    /\ fd_ret = [t \in Tasks |-> NoValue]
    /\ result = [t \in Tasks |-> NoValue]
    /\ error = [t \in Tasks |-> None]
    /\ reports = [t \in Tasks |-> << >>]
    /\ InitNoGroup
    /\ InitNoTree
    /\ InitNoList
    /\ observed = [t \in Tasks |-> FALSE]
    /\ handed = [t \in Tasks |-> << >>]
    /\ delivered = [t \in Tasks |-> << >>]
    /\ progress_phase = Text("")
    /\ progress_status = Text("")
    /\ progress_fraction = << 0, 1 >>
    /\ progress_indeterminate = FALSE
    /\ progress_dir_counts = << >>
    /\ current_task = 0
    /\ button = "scan"
    /\ scan_result = NoValue
    /\ status_label = Text("Ready")
    /\ events = << >>
    /\ poll_timers = 0
    /\ started = 1
    /\ ui_pc = "idle"

\* The caller's context sets the cancellation flag while the pipeline runs
\* or right after it has made its last check.
Cancel(t) ==
    /\ pc[t] \in { "root_check", "walk", "phase_check", "find_duplicates", "hash",
                   "cancel_check", "run_finished" }
    /\ ~cancelled[t]
    /\ cancel(t)
    /\ UNCHANGED << fs, modelsVars, treeVars, listVars, reports, pc, finished, directories, all_files, root_i, walk_i, records,
                    hash_i, fd_ret, result, error, observed, handed, progressVars, uiVars >>

NextEngine ==
    \E t \in Tasks :
        \/ FindDuplicatesBegin(t)
        \/ HashStep(t)
        \/ FindDuplicatesClassify(t)
        \/ Cancel(t)

SpecEngine == InitEngine /\ [][NextEngine]_vars

\* ------------------------------------------- the pipeline on large trees
\* Directory k of a large tree: three files, of which the first cannot be
\* read in every third directory and the second cannot be stat'ed in every
\* fourth.
BulkDir(k) ==
    << File(<<"f", "t">>, "original", k % 3 # 0, TRUE),
       File(<<"F", "T">>, IF k % 2 = 0 THEN "edited version" ELSE "original", TRUE, k % 4 # 0),
       File(<<"d", "t">>, "original", TRUE, TRUE) >>

BulkRoot(n) == [k \in 1..n |-> BulkDir(k)]

\* Two roots of several directories; the third root is not scanned.
PipelineDisks ==
    { << BulkRoot(a), BulkRoot(b), << << >> >> >> :
        a \in { 1, MaxDirs - 9, MaxDirs - 2, MaxDirs }, b \in { 1, 2, 3 } }

\* scan_task has been entered on the roots 1 and 2.
InitPipeline ==
    /\ fs \in PipelineDisks
    /\ pc = [t \in Tasks |-> IF t = 1 THEN "root_check" ELSE "idle"]
    /\ cancelled = [t \in Tasks |-> FALSE]
    /\ finished = [t \in Tasks |-> FALSE]
    /\ directories = [t \in Tasks |-> IF t = 1 THEN << 1, 2 >> ELSE << >>]
    /\ all_files = [t \in Tasks |-> << >>]
    /\ root_i = [t \in Tasks |-> IF t = 1 THEN 1 ELSE 0]
    /\ walk_i = [t \in Tasks |-> 0]
    /\ records = [t \in Tasks |-> << >>]
    /\ hash_i = [t \in Tasks |-> 0]
    /\ fd_ret = [t \in Tasks |-> NoValue]
    /\ result = [t \in Tasks |-> NoValue]
    /\ error = [t \in Tasks |-> None]
    /\ reports = [t \in Tasks |-> << >>]
    /\ InitNoGroup
    /\ InitNoTree
    /\ InitNoList
    /\ observed = [t \in Tasks |-> FALSE]
    /\ handed = [t \in Tasks |-> << >>]
    /\ delivered = [t \in Tasks |-> << >>]
    /\ progress_phase = Text("")
    /\ progress_status = Text("")
    /\ progress_fraction = << 0, 1 >>
    /\ progress_indeterminate = FALSE
    /\ progress_dir_counts = << >>
    /\ current_task = 1
    /\ button = "cancel"
    /\ scan_result = NoValue
    /\ status_label = Text("Ready")
    /\ events = << >>
    /\ poll_timers = 0
    /\ started = 1
    /\ ui_pc = "idle"

NextPipeline ==
    \E t \in Tasks :
        \/ RootCheck(t)
        \/ WalkDir(t)
        \/ PhaseCheck(t)
        \/ HashStep(t)
        \/ FindDuplicatesClassify(t)
        \/ Cancel(t)

SpecPipeline == InitPipeline /\ [][NextPipeline]_vars

\* The positions of a worker thread inside task_fn.
InTaskFn == { "root_check", "walk", "phase_check", "hash", "cancel_check" }

\* Where a worker stands: every step of RootCheck, WalkDir, PhaseCheck,
\* HashStep and FindDuplicatesClassify changes it, and Cancel does not.
position == << pc, walk_i, hash_i >>

\* A worker inside task_fn moves on.
PipelineStep ==
    \E t \in Tasks :
        /\ pc[t] \in InTaskFn
        /\ \E p \in InTaskFn \cup { "run_finished" } :
               pc' = [pc EXCEPT ![t] = p]
        /\ \E w \in { walk_i[t], walk_i[t] + 1, 1 } :
               walk_i' = [walk_i EXCEPT ![t] = w]
        /\ \E h \in { hash_i[t], hash_i[t] + 1, 0 } :
               hash_i' = [hash_i EXCEPT ![t] = h]

\* The worker thread keeps running and each of its I/O calls returns: a
\* worker inside task_fn does not stand still forever.
SpecPipelineFair == SpecPipeline /\ WF_position(PipelineStep)

\* -------------------------------------------------------- a second run
\* hash_candidates run to its end without cancellation: every record of
\* files_to_hash is given the digest of its file.
HashAll(disk, files) ==
    LET to_hash == FilesToHash(files)
    IN  [i \in 1..Len(files) |->
            IF \E k \in 1..Len(to_hash) : to_hash[k] = i
            THEN [files[i] EXCEPT !.sha256 = compute_sha256(disk, files[i].path)]
            ELSE files[i]]

\* Scan, hash and analyze once more, the roots taken in the order dirs.
Rerun(disk, dirs) == Classify(HashAll(disk, ScanAll(disk, dirs)))

\* The orders in which the three roots can be scanned.
RootOrders ==
    { o \in [1..MAX_DIRECTORIES -> Roots] : \A i, j \in 1..MAX_DIRECTORIES : o[i] = o[j] => i = j }

\* ------------------------------------------------- roots given as paths
\* One volume: the directories /a, /a/s and /b, and the symbolic link /l to
\* /a. Paths are sequences of components below the root of the volume.
Links == { << "l" >> }

LinkTarget(p) == << "a" >>

\* The directories in the order os.walk meets them, top down.
TreeDirs == << << "a" >>, << "a", "s" >>, << "b" >> >>

\* The files of a directory, as os.walk lists them.
Listing(dir) ==
    CASE dir = << "a" >> -> << File(<<"f", "t">>, "original", TRUE, TRUE),
                               File(<<"d", "t">>, "original", TRUE, FALSE) >>
      [] dir = << "a", "s" >> -> << File(<<"F", "T">>, "original", TRUE, TRUE) >>
      [] dir = << "b" >> -> << File(<<"d", "t">>, "edited version", TRUE, TRUE) >>
      [] OTHER -> << >>

RECURSIVE Realpath(_, _)
\* The operating system's resolution of the components rest below the
\* resolved directory done: "." stays, ".." goes to the parent, a link is
\* replaced by its target.
Realpath(done, rest) ==
    IF rest = << >> THEN done
    ELSE LET c == Head(rest)
             next == IF c = "." THEN done
                     ELSE IF c = ".." THEN SubSeq(done, 1, Len(done) - 1)
                     ELSE IF Append(done, c) \in Links THEN LinkTarget(Append(done, c))
                     ELSE Append(done, c)
         IN  Realpath(next, Tail(rest))

RECURSIVE Normpath(_, _)
\* The same without looking at the volume: links are kept as they are.
Normpath(done, rest) ==
    IF rest = << >> THEN done
    ELSE LET c == Head(rest)
             next == IF c = "." THEN done
                     ELSE IF c = ".." THEN SubSeq(done, 1, Len(done) - 1)
                     ELSE Append(done, c)
         IN  Normpath(next, Tail(rest))

\* A root made absolute and tidy but with its links unresolved: C21 tells it
\* from resolve.
resolve_lexically(p) == Normpath(<< >>, p)

\* Path.resolve(), scanner.py line 26.
resolve(p) == Realpath(<< >>, p)

IsPrefix(p, q) == Len(p) <= Len(q) /\ SubSeq(q, 1, Len(p)) = p

\* os.walk(root), scanner.py line 29: the directories at and below the one
\* root leads to, each spelled as root followed by its path below it.
os_walk(root) ==
    LET real == Realpath(<< >>, root)
        below == SelectIdx(TreeDirs, LAMBDA d : IsPrefix(real, d))
    IN  [k \in 1..Len(below) |->
            [ dirpath |-> root \o SubSeq(TreeDirs[below[k]], Len(real) + 1,
                                         Len(TreeDirs[below[k]])),
              filenames |-> Listing(TreeDirs[below[k]]) ]]

\* full_path.relative_to(root), scanner.py line 40.
relative_to(path, root) ==
    [ dir |-> SubSeq(path.dir, Len(root) + 1, Len(path.dir)), name |-> path.name ]

\* The FileRecord of scanner.py lines 33-45 for the entry e of dirpath.
TreeRecord(root, dirpath, e) ==
    [ path |-> [ dir |-> dirpath, name |-> e.filename ],
      directory_root |-> root,
      relative_path |-> relative_to([ dir |-> dirpath, name |-> e.filename ], root),
      filename |-> e.filename,
      size |-> Size(e.content),
      sha256 |-> None ]

\* scan_directory, scanner.py lines 25-56, run to its end on the root spelled
\* spelling.
scan_directory(spelling) ==
    LET root == resolve(spelling)
        walk == os_walk(root)
    IN  Flatten([k \in 1..Len(walk) |->
            LET ok == SelectIdx(walk[k].filenames, LAMBDA e : e.stat_ok)
            IN  [j \in 1..Len(ok) |->
                    TreeRecord(root, walk[k].dirpath, walk[k].filenames[ok[j]])]])

\* The roots a user can select: the three directories, under several
\* spellings.
Spellings ==
    { << "a" >>, << "a", "." >>, << "b", "..", "a" >>, << "l" >>,
      << "a", "s" >>, << "l", "s" >>, << "a", "s", "..", "s" >>,
      << "b" >>, << "l", "..", "b" >>, << "a", "s", "..", "..", "b" >> }

\* get_directories, dir_selector.py lines 104-114: the entries that hold a
\* directory, two or three of them, in the order of the entries.
Selections ==
    UNION { [1..n -> Spellings] : n \in MIN_DIRECTORIES..MAX_DIRECTORIES }

\* The file on the volume behind the path of a record.
TreeFileAt(path) ==
    LET listing == Listing(Realpath(<< >>, path.dir))
    IN  listing[CHOOSE j \in 1..Len(listing) : listing[j].filename = path.name]

\* hash_candidates run to its end without cancellation on the records of
\* the volume.
HashTree(files) ==
    LET to_hash == FilesToHash(files)
    IN  [i \in 1..Len(files) |->
            IF \E k \in 1..Len(to_hash) : to_hash[k] = i
            THEN [files[i] EXCEPT !.sha256 =
                     IF TreeFileAt(files[i].path).readable
                     THEN Sha256Hex(TreeFileAt(files[i].path).content) ELSE None]
            ELSE files[i]]

InitTree ==
    /\ fs = AppDisk
    /\ InitIdle
    /\ InitNoGroup
    /\ InitNoList
    /\ selection \in Selections
    /\ scanned = NoValue
    /\ analysed = NoValue

\* scan_task, app.py lines 162-188, uncancelled: every selected root is
\* scanned and all_files extended with its records.
ScanSelection ==
    /\ selection # << >>
    /\ scanned = NoValue
    /\ scanned' = Some(Flatten([k \in 1..Len(selection) |-> scan_directory(selection[k])]))
    /\ UNCHANGED << fs, workerVars, progressVars, uiVars, modelsVars, listVars,
                    selection, analysed >>

\* scan_task, app.py lines 211-237, uncancelled: find_duplicates is called on
\* all_files and the ScanResult is built.
AnalyzeSelection ==
    /\ scanned # NoValue
    /\ analysed = NoValue
    /\ LET files == HashTree(scanned[1])
       IN  analysed' = Some(ScanResult(selection, Classify(files), files))
    /\ UNCHANGED << fs, workerVars, progressVars, uiVars, modelsVars, listVars,
                    selection, scanned >>

NextTree ==
    \/ ScanSelection
    \/ AnalyzeSelection

SpecTree == InitTree /\ [][NextTree]_vars

\* ------------------------------------------------------ the Details tab
\* A DuplicateGroup of _result, referred to by the list that holds it and
\* its position there; positions count from 1.
Ref(list, at) == [ list |-> list, at |-> at ]

GroupAt(res, ref) == res[ref.list][ref.at]

\* _populate_tree, file_list.py lines 238-267: _groups is cleared and filled
\* again from _result according to the filter.
populate_tree(groups, res, filter) ==
    LET cleared == SubSeq(groups, 1, 0)
        identical == IF filter \in { LABEL_FILTER_ALL, LABEL_FILTER_IDENTICAL }
                     THEN [k \in 1..Len(res.binary_duplicates) |->
                              Ref("binary_duplicates", k)]
                     ELSE << >>
        modified == IF filter \in { LABEL_FILTER_ALL, LABEL_FILTER_MODIFIED }
                    THEN [k \in 1..Len(res.diverged_files) |-> Ref("diverged_files", k)]
                    ELSE << >>
    IN  cleared \o identical \o modified

\* The keys of _checked that point at a member of a group of _groups.
ValidKeys(res, groups, keys) ==
    { key \in keys :
        /\ key[1] <= Len(groups)
        /\ key[2] <= Len(GroupAt(res, groups[key[1]]).files) }

\* sorted(self._checked), restricted to the valid keys, each with its record:
\* selected_files of delete_selected, lines 497-502.
SelectedFiles(res, groups, keys) ==
    LET valid == ValidKeys(res, groups, keys)
        all == Flatten([gi \in 1..Len(groups) |->
                   [fi \in 1..Len(GroupAt(res, groups[gi]).files) |-> << gi, fi >>]])
        at == SelectIdx(all, LAMBDA key : key \in valid)
    IN  [k \in 1..Len(at) |->
            [ gi |-> all[at[k]][1], fi |-> all[at[k]][2],
              f |-> GroupAt(res, groups[all[at[k]][1]]).files[all[at[k]][2]] ]]

RECURSIVE Send2Trash(_, _, _, _)
\* The loop of lines 518-524 from position i on: send2trash raises for a file
\* that is no longer at its path and for the files of failing; gone are the
\* paths moved so far. The result is the list deleted.
Send2Trash(selected, i, gone, failing) ==
    IF i > Len(selected) THEN << >>
    ELSE IF selected[i].f.path \in gone \cup failing
         THEN Send2Trash(selected, i + 1, gone, failing)
         ELSE << selected[i] >>
                  \o Send2Trash(selected, i + 1, gone \cup { selected[i].f.path }, failing)

\* list.remove(f): the first element equal to f is taken out.
Remove(files, f) ==
    LET first == CHOOSE i \in 1..Len(files) :
                     files[i] = f /\ \A j \in 1..(i - 1) : files[j] # f
    IN  SubSeq(files, 1, first - 1) \o SubSeq(files, first + 1, Len(files))

RECURSIVE RemoveDeleted(_, _, _, _)
\* The loop of lines 528-532 over reversed(deleted), from position i down:
\* each deleted record is removed from the group it was checked in.
RemoveDeleted(res, groups, deleted, i) ==
    IF i = 0 THEN res
    ELSE LET ref == groups[deleted[i].gi]
             removed == [res EXCEPT ![ref.list][ref.at].files = Remove(@, deleted[i].f)]
         IN  RemoveDeleted(removed, groups, deleted, i - 1)

\* The results the Details tab is given: three roots with one file each,
\* two identical and one edited; two roots with an identical pair and a
\* diverged pair; three roots with identical copies.
DetailDisks ==
    { << << << File(<<"d", "t">>, "original", TRUE, TRUE) >> >>,
         << << File(<<"d", "t">>, "original", TRUE, TRUE) >> >>,
         << << File(<<"d", "t">>, "edited version", TRUE, TRUE) >> >> >>,
      << << << File(<<"f", "t">>, "original", TRUE, TRUE),
               File(<<"d", "t">>, "original", TRUE, TRUE) >> >>,
         << << File(<<"F", "T">>, "original", TRUE, TRUE),
               File(<<"d", "t">>, "edited version", TRUE, TRUE) >> >>,
         << << >> >> >>,
      << << << File(<<"f", "t">>, "original", TRUE, TRUE) >> >>,
         << << File(<<"f", "t">>, "original", TRUE, TRUE) >> >>,
         << << File(<<"f", "t">>, "original", TRUE, TRUE) >> >> >> }

\* The ScanResult of an uncancelled scan of the three roots of disk.
ResultOf(disk) ==
    LET files == HashAll(disk, ScanAll(disk, << 1, 2, 3 >>))
    IN  ScanResult(<< 1, 2, 3 >>, Classify(files), files)

\* update_results, lines 215-229, has been called with the result of a scan.
InitDetails ==
    /\ fs \in DetailDisks
    /\ InitIdle
    /\ InitNoGroup
    /\ InitNoTree
    /\ list_result = Some(ResultOf(fs))
    /\ list_groups = populate_tree(<< >>, ResultOf(fs), LABEL_FILTER_ALL)
    /\ current_filter = LABEL_FILTER_ALL
    /\ checked = {}
    /\ trash = {}
    /\ last_delete = NoValue

\* apply_filter, lines 231-236.
ApplyFilter(filter_value) ==
    /\ list_result # NoValue
    /\ current_filter' = filter_value
    /\ checked' = {}
    /\ list_groups' = populate_tree(list_groups, list_result[1], filter_value)
    /\ UNCHANGED << fs, workerVars, progressVars, uiVars, modelsVars, treeVars,
                    list_result, trash, last_delete >>

\* _on_file_check_toggle, lines 412-420: the checkbox of member fi of the
\* group gi shown in the detail panel is switched.
FileCheckToggle(gi, fi) ==
    /\ gi \in 1..Len(list_groups)
    /\ fi \in 1..Len(GroupAt(list_result[1], list_groups[gi]).files)
    /\ checked' = IF << gi, fi >> \in checked
                  THEN checked \ { << gi, fi >> }
                  ELSE checked \cup { << gi, fi >> }
    /\ UNCHANGED << fs, workerVars, progressVars, uiVars, modelsVars, treeVars,
                    list_result, list_groups, current_filter, trash, last_delete >>

\* delete_selected, lines 495-546, confirmed in the dialog, with send2trash
\* failing for the paths of failing.
DeleteSelected(failing) ==
    /\ list_result # NoValue
    /\ LET selected_files == SelectedFiles(list_result[1], list_groups, checked)
           deleted == Send2Trash(selected_files, 1, trash, failing)
           res == RemoveDeleted(list_result[1], list_groups, deleted, Len(deleted))
           undeleted == checked \ { << deleted[k].gi, deleted[k].fi >> : k \in 1..Len(deleted) }
           kept == SelectSeq(list_groups, LAMBDA ref : Len(GroupAt(res, ref).files) >= 2)
       IN  /\ selected_files # << >>
           /\ failing \subseteq { selected_files[k].f.path : k \in 1..Len(selected_files) }
           /\ list_result' = Some(res)
           /\ checked' = ValidKeys(res, list_groups, undeleted)
           /\ list_groups' = populate_tree(kept, res, current_filter)
           /\ trash' = trash \cup { deleted[k].f.path : k \in 1..Len(deleted) }
           /\ last_delete' = Some([ selected |-> { selected_files[k].f.path :
                                                    k \in 1..Len(selected_files) },
                                    deleted |-> { deleted[k].f.path : k \in 1..Len(deleted) } ])
    /\ UNCHANGED << fs, workerVars, progressVars, uiVars, modelsVars, treeVars,
                    current_filter >>

\* The paths of the files on a disk.
DiskPaths(disk) ==
    { p \in Roots \X { 1 } \X (1..MaxFiles) : p[3] <= Len(disk[p[1]][p[2]]) }

NextDetails ==
    \/ \E f \in { LABEL_FILTER_ALL, LABEL_FILTER_IDENTICAL, LABEL_FILTER_MODIFIED } :
           ApplyFilter(f)
    \/ \E gi \in 1..(2 * MaxGroups), fi \in 1..MaxMembers : FileCheckToggle(gi, fi)
    \/ \E failing \in SUBSET DiskPaths(fs) : DeleteSelected(failing)

SpecDetails == InitDetails /\ [][NextDetails]_vars

\* ---------------------------------------------- DuplicateGroup on its own
\* wasted_bytes summed over all members but the first: C11 tells it from
\* wasted_bytes.
wasted_bytes_of_the_rest(g) ==
    IF g.match_type = "BINARY_DUPLICATE" /\ g.files # << >>
    THEN SumSizes(Tail(g.files))
    ELSE 0

\* DuplicateGroup.wasted_bytes, models.py lines 37-41.
wasted_bytes(g) ==
    IF g.match_type = "BINARY_DUPLICATE" /\ g.files # << >>
    THEN g.files[1].size * (Len(g.files) - 1)
    ELSE 0

RECURSIVE MaxFrom(_, _, _)
\* max(files, key=modified) from position i on, best being the position of
\* the greatest so far: a later member replaces it only if it is greater.
MaxFrom(files, i, best) ==
    IF i > Len(files) THEN best
    ELSE MaxFrom(files, i + 1,
                 IF files[i].modified > files[best].modified THEN i ELSE best)

RECURSIVE MaxFromLast(_, _, _)
\* A max that lets a later member of equal time replace the best so far.
MaxFromLast(files, i, best) ==
    IF i > Len(files) THEN best
    ELSE MaxFromLast(files, i + 1,
                     IF files[i].modified >= files[best].modified THEN i ELSE best)

RECURSIVE MinFrom(_, _, _)
\* min(files, key=modified), likewise.
MinFrom(files, i, best) ==
    IF i > Len(files) THEN best
    ELSE MinFrom(files, i + 1,
                 IF files[i].modified < files[best].modified THEN i ELSE best)

\* newest_file returning the last of the members that tie: C22 tells it from
\* newest_file.
newest_file_last_of_ties(g) ==
    IF g.files = << >> THEN None ELSE MaxFromLast(g.files, 2, 1)

\* DuplicateGroup.newest_file, models.py lines 43-47: None, or the member
\* returned, given by its position in files.
newest_file(g) ==
    IF g.files = << >> THEN None ELSE MaxFrom(g.files, 2, 1)

\* DuplicateGroup.oldest_file, models.py lines 49-53.
oldest_file(g) ==
    IF g.files = << >> THEN None ELSE MinFrom(g.files, 2, 1)

\* File sizes: those of the contents, and an empty file.
Sizes == { 0 } \cup { Size(c) : c \in Contents }

\* Modification times, as whole seconds.
Times == { 1, 2 }

\* Records a group can be built from, one per root, size and modification
\* time.
Members ==
    { [ path |-> << r, 1, 1 >>, directory_root |-> r, filename |-> << "f", "t" >>,
        size |-> s, modified |-> m, sha256 |-> None ] :
        r \in 1..MIN_DIRECTORIES, s \in Sizes, m \in Times }

MemberLists == UNION { [1..n -> Members] : n \in 0..MaxMembers }

\* Groups of either type with up to MaxMembers members.
Groups ==
    { [ match_type |-> type, files |-> files, shared_name |-> << "f", "t" >>,
        hash_value |-> None ] :
        type \in { "BINARY_DUPLICATE", "DIVERGED" }, files \in MemberLists }

RECURSIVE SumWasted(_, _)
\* sum(g.wasted_bytes for g in groups) from position i on
SumWasted(groups, i) ==
    IF i > Len(groups) THEN 0 ELSE wasted_bytes(groups[i]) + SumWasted(groups, i + 1)

RECURSIVE SumCopies(_, _)
\* sum(len(g.files) - 1 for g in groups) from position i on
SumCopies(groups, i) ==
    IF i > Len(groups) THEN 0 ELSE (Len(groups[i].files) - 1) + SumCopies(groups, i + 1)

RECURSIVE SumMembers(_, _)
\* sum(len(g.files) for g in groups) from position i on
SumMembers(groups, i) ==
    IF i > Len(groups) THEN 0 ELSE Len(groups[i].files) + SumMembers(groups, i + 1)

\* ScanResult.total_reclaimable_bytes, models.py lines 67-69.
total_reclaimable_bytes(res) == SumWasted(res.binary_duplicates, 1)

\* A count of all members, the kept one included: C23 tells it from
\* total_binary_duplicate_count.
total_binary_duplicate_count_of_members(res) == SumMembers(res.binary_duplicates, 1)

\* ScanResult.total_binary_duplicate_count, models.py lines 71-73.
total_binary_duplicate_count(res) == SumCopies(res.binary_duplicates, 1)

\* Records the groups of a ScanResult are built from.
SummaryMembers == { r \in Members : r.directory_root = 1 /\ r.modified = 1 /\ r.size > 0 }

SummaryGroups(type) ==
    { [ match_type |-> type, files |-> files, shared_name |-> << "f", "t" >>,
        hash_value |-> None ] :
        files \in UNION { [1..n -> SummaryMembers] : n \in 0..MaxMembers } }

\* ScanResults with up to MaxGroups binary groups and at most one diverged
\* group; members can have been removed from the groups since the scan.
Summaries ==
    { [ directories |-> << 1, 2 >>,
        binary_duplicates |-> b,
        diverged_files |-> d,
        total_files |-> 0,
        files_per_directory |-> << >>,
        total_size_per_directory |-> << >> ] :
        b \in UNION { [1..n -> SummaryGroups("BINARY_DUPLICATE")] : n \in 0..MaxGroups },
        d \in { << >> } \cup { << g >> : g \in { x \in SummaryGroups("DIVERGED") :
                                                   Len(x.files) = MIN_DIRECTORIES } } }

\* Either a DuplicateGroup or a ScanResult is under study.
InitModels ==
    /\ fs = AppDisk
    /\ InitIdle
    /\ \/ /\ dup_group \in { Some(g) : g \in Groups }
          /\ summary = NoValue
       \/ /\ dup_group = NoValue
          /\ summary \in { Some(r) : r \in Summaries }
    /\ wasted = NoValue
    /\ newest = NoValue
    /\ oldest = NoValue
    /\ totals = NoValue
    /\ InitNoTree
    /\ InitNoList

\* The property wasted_bytes is read.
WastedBytes ==
    /\ dup_group # NoValue
    /\ wasted = NoValue
    /\ wasted' = Some(wasted_bytes(dup_group[1]))
    /\ UNCHANGED << fs, workerVars, progressVars, uiVars, treeVars, listVars,
                    dup_group, newest, oldest, summary, totals >>

\* The property newest_file is read.
NewestFile ==
    /\ dup_group # NoValue
    /\ newest = NoValue
    /\ newest' = Some(newest_file(dup_group[1]))
    /\ UNCHANGED << fs, workerVars, progressVars, uiVars, treeVars, listVars,
                    dup_group, wasted, oldest, summary, totals >>

\* The property oldest_file is read.
OldestFile ==
    /\ dup_group # NoValue
    /\ oldest = NoValue
    /\ oldest' = Some(oldest_file(dup_group[1]))
    /\ UNCHANGED << fs, workerVars, progressVars, uiVars, treeVars, listVars,
                    dup_group, wasted, newest, summary, totals >>

\* The properties total_reclaimable_bytes and total_binary_duplicate_count
\* are read.
ReadTotals ==
    /\ summary # NoValue
    /\ totals = NoValue
    /\ totals' = Some([ reclaimable |-> total_reclaimable_bytes(summary[1]),
                        copies |-> total_binary_duplicate_count(summary[1]) ])
    /\ UNCHANGED << fs, workerVars, progressVars, uiVars, treeVars, listVars,
                    dup_group, wasted, newest, oldest, summary >>

NextModels ==
    \/ WastedBytes
    \/ NewestFile
    \/ OldestFile
    \/ ReadTotals

SpecModels == InitModels /\ [][NextModels]_vars

\* ------------------------------------------------------------ properties
\* What the properties expect is stated on sets, from the file names and the
\* contents on disk, not with the operators of the analyzer.

\* The lowercase spelling of each file name.
LowercaseName(name) == IF name = << "F", "T" >> THEN << "f", "t" >> ELSE name

LowercaseNames == { LowercaseName(n) : n \in FileNames }

Digests == { Sha256Hex(c) : c \in Contents }

\* find_duplicates has returned to its caller.
FdReturned(t) == pc[t] = "run_finished" /\ fd_ret[t] # NoValue

\* find_duplicates has returned without having seen the flag set.
Uncancelled(t) == FdReturned(t) /\ ~observed[t]

BinaryGroups(t) == fd_ret[t][1][1]
DivergedGroups(t) == fd_ret[t][1][2]

PathsOf(group) == { group.files[k].path : k \in 1..Len(group.files) }

GroupsHolding(groups, path) == { k \in 1..Len(groups) : path \in PathsOf(groups[k]) }

\* The records of a name-group, and of its holders of a digest.
MembersOf(files, name) == { i \in 1..Len(files) : LowercaseName(files[i].filename) = name }

HoldersOf(files, name, d) == { i \in MembersOf(files, name) : files[i].sha256 = d }

RootsOf(files, S) == { files[i].directory_root : i \in S }

DigestsOf(files, S) == { files[i].sha256 : i \in S } \ { None }

PathsAt(files, S) == { files[i].path : i \in S }

\* C1: in an uncancelled run, two records with the same non-absent digest,
\* different roots and names equal after lowercasing lie together in exactly
\* one BINARY_DUPLICATE group, whose shared name is the lowercase name.
SameDigestPair(files, i, j) ==
    /\ files[i].sha256 # None
    /\ files[i].sha256 = files[j].sha256
    /\ files[i].directory_root # files[j].directory_root
    /\ LowercaseName(files[i].filename) = LowercaseName(files[j].filename)

C1_SameDigestPairInOneGroup ==
    \A t \in Tasks : Uncancelled(t) =>
        \A i, j \in 1..Len(all_files[t]) :
            SameDigestPair(all_files[t], i, j) =>
                LET bin == BinaryGroups(t)
                    of_i == GroupsHolding(bin, all_files[t][i].path)
                    of_j == GroupsHolding(bin, all_files[t][j].path)
                IN  /\ of_i = of_j
                    /\ Cardinality(of_i) = 1
                    /\ \A k \in of_i :
                        /\ bin[k].match_type = "BINARY_DUPLICATE"
                        /\ bin[k].shared_name = LowercaseName(all_files[t][i].filename)

\* Two identical files in different roots whose names differ in case only
\* have been classified.
C1_Witness ==
    \E t \in Tasks : Uncancelled(t) /\
        \E i, j \in 1..Len(all_files[t]) :
            /\ SameDigestPair(all_files[t], i, j)
            /\ all_files[t][i].filename # all_files[t][j].filename

\* C2: a name-group whose members all have one root is never hashed and
\* contributes no group, whether the run is cancelled or not.
SingleRoot(files, i) ==
    Cardinality(RootsOf(files, MembersOf(files, LowercaseName(files[i].filename)))) = 1

C2_SingleRootGroupUntouched ==
    \A t \in Tasks : \A i \in 1..Len(all_files[t]) :
        SingleRoot(all_files[t], i) =>
            /\ all_files[t][i].sha256 = None
            /\ FdReturned(t) =>
                \A groups \in { BinaryGroups(t), DivergedGroups(t) } :
                    /\ GroupsHolding(groups, all_files[t][i].path) = {}
                    /\ \A k \in 1..Len(groups) :
                        groups[k].shared_name # LowercaseName(all_files[t][i].filename)

\* An uncancelled run has returned on two readable files of one name and one
\* content in the same root.
C2_Witness ==
    \E t \in Tasks : Uncancelled(t) /\
        \E i, j \in 1..Len(all_files[t]) :
            /\ i # j
            /\ SingleRoot(all_files[t], i)
            /\ LowercaseName(all_files[t][i].filename) = LowercaseName(all_files[t][j].filename)
            /\ FileAt(fs, all_files[t][i].path).readable
            /\ FileAt(fs, all_files[t][j].path).readable
            /\ FileAt(fs, all_files[t][i].path).content = FileAt(fs, all_files[t][j].path).content

\* C3: in an uncancelled run a name-group across two or more roots with two
\* or more distinct digests gives exactly one DIVERGED group, without digest,
\* holding every record of the name-group; any other name-group gives none.
C3_OneDivergedGroupOfAllMembers ==
    \A t \in Tasks : Uncancelled(t) =>
        LET files == all_files[t]
            div == DivergedGroups(t)
        IN  /\ \A k \in 1..Len(div) : div[k].shared_name \in LowercaseNames
            /\ \A name \in LowercaseNames :
                LET members == MembersOf(files, name)
                    emitted == { k \in 1..Len(div) : div[k].shared_name = name }
                IN  IF /\ Cardinality(RootsOf(files, members)) >= 2
                       /\ Cardinality(DigestsOf(files, members)) >= 2
                    THEN /\ Cardinality(emitted) = 1
                         /\ \A k \in emitted :
                            /\ div[k].match_type = "DIVERGED"
                            /\ div[k].hash_value = None
                            /\ Len(div[k].files) = Cardinality(members)
                            /\ PathsOf(div[k]) = PathsAt(files, members)
                    ELSE emitted = {}

\* A DIVERGED group has been emitted that holds a record without digest.
C3_Witness ==
    \E t \in Tasks : Uncancelled(t) /\
        \E k \in 1..Len(DivergedGroups(t)) :
            \E m \in 1..Len(DivergedGroups(t)[k].files) :
                DivergedGroups(t)[k].files[m].sha256 = None

\* Roots A and B hold identical copies and root C an edited one.
ScenarioDisk ==
    << << << File(<<"d", "t">>, "original", TRUE, TRUE) >> >>,
       << << File(<<"d", "t">>, "original", TRUE, TRUE) >> >>,
       << << File(<<"d", "t">>, "edited version", TRUE, TRUE) >> >> >>

\* C4: in an uncancelled run, for each name-group and digest, one
\* BINARY_DUPLICATE group of exactly all holders of the digest is emitted if
\* the holders span two or more roots, and none otherwise, whether or not the
\* name-group is diverged; the scenario gives one group of each kind, of
\* sizes 2 and 3.
C4_BinaryGroupPerCrossRootDigest ==
    \A t \in Tasks : Uncancelled(t) =>
        LET files == all_files[t]
            bin == BinaryGroups(t)
            div == DivergedGroups(t)
        IN  /\ \A k \in 1..Len(bin) :
                bin[k].shared_name \in LowercaseNames /\ bin[k].hash_value \in Digests
            /\ \A name \in LowercaseNames : \A d \in Digests :
                LET holders == HoldersOf(files, name, d)
                    emitted == { k \in 1..Len(bin) :
                                    bin[k].shared_name = name /\ bin[k].hash_value = d }
                IN  IF Cardinality(RootsOf(files, holders)) >= 2
                    THEN /\ Cardinality(emitted) = 1
                         /\ \A k \in emitted :
                            /\ bin[k].match_type = "BINARY_DUPLICATE"
                            /\ Len(bin[k].files) = Cardinality(holders)
                            /\ PathsOf(bin[k]) = PathsAt(files, holders)
                    ELSE emitted = {}
            /\ fs = ScenarioDisk =>
                /\ Len(bin) = 1 /\ Len(bin[1].files) = 2
                /\ Len(div) = 1 /\ Len(div[1].files) = 3

\* The scenario has been classified.
C4_Witness ==
    \E t \in Tasks : Uncancelled(t) /\ fs = ScenarioDisk /\ BinaryGroups(t) # << >>

\* The digest of the bytes on disk behind record i, None if unreadable.
DiskDigest(files, i) ==
    IF FileAt(fs, files[i].path).readable
    THEN Sha256Hex(FileAt(fs, files[i].path).content) ELSE None

CrossRoot(files, name) == Cardinality(RootsOf(files, MembersOf(files, name))) >= 2

\* The groups of a complete classification, as (name, digest, paths).
ExpectedBinary(files) ==
    { << name, d, PathsAt(files, { i \in MembersOf(files, name) : DiskDigest(files, i) = d }) >> :
        << name, d >> \in
            { nd \in LowercaseNames \X Digests :
                /\ CrossRoot(files, nd[1])
                /\ Cardinality(RootsOf(files,
                        { i \in MembersOf(files, nd[1]) : DiskDigest(files, i) = nd[2] })) >= 2 } }

ExpectedDiverged(files) ==
    { << name, None, PathsAt(files, MembersOf(files, name)) >> :
        name \in { n \in LowercaseNames :
                    /\ CrossRoot(files, n)
                    /\ Cardinality({ DiskDigest(files, i) : i \in MembersOf(files, n) }
                                        \ { None }) >= 2 } }

AsTriples(groups) ==
    { << groups[k].shared_name, groups[k].hash_value, PathsOf(groups[k]) >> :
        k \in 1..Len(groups) }

\* find_duplicates has returned the complete classification: every record
\* of a cross-root name-group is hashed and the groups are the expected ones.
CompleteClassification(t) ==
    /\ fd_ret[t] # NoValue
    /\ \A i \in 1..Len(all_files[t]) :
        CrossRoot(all_files[t], LowercaseName(all_files[t][i].filename)) =>
            all_files[t][i].sha256 = DiskDigest(all_files[t], i)
    /\ AsTriples(BinaryGroups(t)) = ExpectedBinary(all_files[t])
    /\ Len(BinaryGroups(t)) = Cardinality(ExpectedBinary(all_files[t]))
    /\ AsTriples(DivergedGroups(t)) = ExpectedDiverged(all_files[t])
    /\ Len(DivergedGroups(t)) = Cardinality(ExpectedDiverged(all_files[t]))

\* C5: the flag stays set once set; find_duplicates returns two empty lists
\* if the flag is set when it makes its check after hashing (so whenever it
\* was set before or during hashing), and the complete classification
\* otherwise: never a partial one.
C5_AllOrNothing ==
    [][\A t \in Tasks :
        /\ cancelled[t] => cancelled'[t]
        /\ (~FdReturned(t) /\ FdReturned(t)') =>
            IF cancelled[t]
            THEN fd_ret'[t] = Some(NoGroups)
            ELSE CompleteClassification(t)']_vars

\* Two empty lists have been returned although a record carries a digest and
\* the complete classification holds a group.
C5_Witness ==
    \E t \in Tasks :
        /\ FdReturned(t)
        /\ observed[t]
        /\ fd_ret[t] = Some(NoGroups)
        /\ \E i \in 1..Len(all_files[t]) : all_files[t][i].sha256 # None
        /\ ExpectedBinary(all_files[t]) # {}

\* The worker's pipeline (task_fn) is running.
PipelineRunning(t) == pc[t] \in { "root_check", "walk", "phase_check", "hash", "cancel_check" }

\* C6: every task whose task function has returned or raised hands exactly
\* one terminal signal to the UI thread, a cancelled run included.
C6_ExactlyOneTerminalSignal ==
    \A t \in Tasks : pc[t] = "done" => Len(handed[t]) = 1

\* C7: when the task function has raised, on_error is scheduled once with the
\* error, on_complete never, and no result of that task reaches the window.
C7_ErrorSignalledOnceAlone ==
    /\ \A t \in Tasks : error[t] # None =>
        /\ result[t] = NoValue
        /\ handed[t] \in { << >>, << "on_error" >> }
        /\ pc[t] = "done" => handed[t] = << "on_error" >>
        /\ delivered[t] \in { << >>, << "on_error" >> }
        /\ \A k \in 1..Len(events) :
            events[k].task = t => events[k].callback = "on_error" /\ events[k].arg = error[t]
    /\ scan_result # NoValue =>
        \E t \in Tasks : error[t] = None /\ delivered[t] = << "on_complete" >>

\* The error callback of a task that raised has run.
C7_Witness ==
    \E t \in Tasks : error[t] # None /\ delivered[t] = << "on_error" >>

\* C8: no second worker pipeline runs while one is running.
C8_SingleFlight ==
    Cardinality({ t \in Tasks : PipelineRunning(t) }) <= 1

\* C9: once a worker has handed over its terminal signal it changes neither
\* its finished flag nor, by any step of its own, the progress fields.
C9_QuietAfterSignal ==
    [][\A t \in Tasks : handed[t] # << >> =>
        /\ finished'[t] = finished[t]
        /\ pc'[t] # pc[t] => UNCHANGED progressVars]_vars

\* A worker has handed over its signal while a later worker is running.
C9_Witness ==
    \E t, u \in Tasks : handed[t] # << >> /\ finished[t] /\ PipelineRunning(u)

\* C10: a run that has seen the flag set does no further scanning or hashing
\* and returns, null or a result with both lists empty; it does not raise and
\* on_error is not scheduled for it.
C10_CancellationEndsNormally ==
    \A t \in Tasks : observed[t] =>
        /\ error[t] = None
        /\ pc[t] \in { "root_check", "phase_check", "cancel_check", "run_finished",
                       "run_signal", "done" }
        /\ handed[t] = << >>
        /\ delivered[t] = << >>
        /\ pc[t] \in { "run_finished", "run_signal" } =>
            \/ result[t] = NoValue
            \/ /\ result[t][1].binary_duplicates = << >>
               /\ result[t][1].diverged_files = << >>

\* A run cancelled while hashing has returned a result with empty lists
\* although the files it hashed are duplicates.
C10_Witness ==
    \E t \in Tasks :
        /\ observed[t]
        /\ pc[t] = "run_finished"
        /\ result[t] # NoValue
        /\ Classify(all_files[t])[1] # << >>

\* C11: wasted_bytes of a BINARY_DUPLICATE group of n >= 1 members is n - 1
\* times the size of its first member, (n - 1) * s when all have size s; it is
\* 0 for a DIVERGED group and for a group without members.
C11_WastedBytes ==
    wasted # NoValue =>
        LET g == dup_group[1]
            n == Len(g.files)
        IN  /\ g.match_type = "BINARY_DUPLICATE" /\ n >= 1 =>
                /\ wasted[1] = (n - 1) * g.files[1].size
                /\ \A s \in Sizes :
                       (\A k \in 1..n : g.files[k].size = s) => wasted[1] = (n - 1) * s
            /\ g.match_type = "DIVERGED" => wasted[1] = 0
            /\ n = 0 => wasted[1] = 0

\* wasted_bytes was read on a binary group whose first member is the smallest.
C11_Witness ==
    /\ wasted = Some(16)
    /\ dup_group[1].match_type = "BINARY_DUPLICATE"
    /\ Len(dup_group[1].files) = 3
    /\ dup_group[1].files[2].size = 14

\* The groups of a list as a set: classification, name, digest, member files.
GroupSet(groups) ==
    { << groups[k].match_type, groups[k].shared_name, groups[k].hash_value,
         PathsOf(groups[k]) >> : k \in 1..Len(groups) }

\* C12: an uncancelled run returns the same set of groups (classification,
\* shared name, digest and member files) as any other uncancelled run over
\* the same disk, whatever the order in which that run scans the roots.
C12_Idempotent ==
    [](\A t \in Tasks : (Uncancelled(t) /\ ~cancelled[t]) =>
        LET binary == GroupSet(BinaryGroups(t))
            diverged == GroupSet(DivergedGroups(t))
        IN  \A o \in RootOrders :
                LET again == Rerun(fs, o)
                IN  /\ GroupSet(again[1]) = binary
                    /\ Len(again[1]) = Len(BinaryGroups(t))
                    /\ GroupSet(again[2]) = diverged
                    /\ Len(again[2]) = Len(DivergedGroups(t)))

\* A run has returned groups of both kinds, and a second run that scans the
\* roots in another order lists them differently.
C12_Witness ==
    \E t \in Tasks :
        /\ Uncancelled(t)
        /\ BinaryGroups(t) # << >>
        /\ DivergedGroups(t) # << >>
        /\ \E o \in RootOrders : Rerun(fs, o) # fd_ret[t][1]

\* The file behind record i of files cannot be read.
Unreadable(files, i) == ~FileAt(fs, files[i].path).readable

\* C13: a record whose file cannot be read never gets a digest; in an
\* uncancelled run it is in no BINARY_DUPLICATE group, it is a member of the
\* DIVERGED group of its name if there is one, and a name-group of one
\* readable and one unreadable file in two roots gives no group at all.
C13_UnreadableHasNoDigest ==
    \A t \in Tasks :
        LET files == all_files[t]
        IN  /\ \A i \in 1..Len(files) : Unreadable(files, i) => files[i].sha256 = None
            /\ error[t] = None
            /\ Uncancelled(t) =>
                /\ \A i \in 1..Len(files) : Unreadable(files, i) =>
                    /\ GroupsHolding(BinaryGroups(t), files[i].path) = {}
                    /\ \A k \in 1..Len(DivergedGroups(t)) :
                        DivergedGroups(t)[k].shared_name = LowercaseName(files[i].filename)
                            => files[i].path \in PathsOf(DivergedGroups(t)[k])
                /\ \A name \in LowercaseNames :
                    LET members == MembersOf(files, name)
                    IN  (/\ Cardinality(members) = 2
                         /\ Cardinality(RootsOf(files, members)) = 2
                         /\ \E i, j \in members : Unreadable(files, i) /\ ~Unreadable(files, j))
                        => \A k \in 1..Len(BinaryGroups(t)) \cup 1..Len(DivergedGroups(t)) :
                            /\ k <= Len(BinaryGroups(t)) => BinaryGroups(t)[k].shared_name # name
                            /\ k <= Len(DivergedGroups(t)) => DivergedGroups(t)[k].shared_name # name

\* An uncancelled run over a name-group of a readable and an unreadable file
\* in two roots has hashed the readable one and returned no group.
C13_Witness ==
    \E t \in Tasks : Uncancelled(t) /\
        \E i, j \in 1..Len(all_files[t]) :
            /\ Unreadable(all_files[t], i)
            /\ all_files[t][j].sha256 # None
            /\ LowercaseName(all_files[t][i].filename) = LowercaseName(all_files[t][j].filename)
            /\ all_files[t][i].directory_root # all_files[t][j].directory_root
            /\ Len(all_files[t]) = 2
            /\ fd_ret[t] = Some(NoGroups)

\* The records expected from directory d of a root: one for each file whose
\* stat succeeds, in listing order; and from the first n directories.
ExpectedOfDir(root, d) ==
    LET ok == Ascending({ j \in 1..Len(fs[root][d]) : fs[root][d][j].stat_ok })
    IN  [k \in 1..Len(ok) |->
            [ path |-> << root, d, ok[k] >>, directory_root |-> root,
              filename |-> fs[root][d][ok[k]].filename,
              size |-> Size(fs[root][d][ok[k]].content), sha256 |-> None ]]

ExpectedOfDirs(root, n) == Flatten([d \in 1..n |-> ExpectedOfDir(root, d)])

\* scan_directory is running in task t / returns in this step.
Walking(t) == pc[t] = "walk"
WalkReturns(t) == pc[t] = "walk" /\ pc'[t] # "walk"

\* C14: scan_directory looks at the flag before it collects a directory;
\* once the flag is set it visits no further directory and returns what it
\* has collected, a prefix by whole directories of the uncancelled result,
\* which is empty when the flag was set from the start.
C14_CancelledScanReturnsPrefix ==
    /\ [](\A t \in Tasks : Walking(t) =>
            records[t] = ExpectedOfDirs(directories[t][root_i[t]], walk_i[t] - 1))
    /\ [][\A t \in Tasks :
            LET root == directories[t][root_i[t]]
            IN  /\ (Walking(t) /\ cancelled[t] /\ pc'[t] = "walk") =>
                    /\ walk_i'[t] = walk_i[t]
                    /\ records'[t] = records[t]
                /\ WalkReturns(t) =>
                    LET n == IF cancelled[t] THEN walk_i[t] - 1 ELSE Len(fs[root])
                    IN  all_files'[t] = all_files[t] \o ExpectedOfDirs(root, n)]_vars

\* A cancelled scan of the first root has returned some of its directories,
\* not all.
C14_Witness ==
    \E t \in Tasks :
        /\ observed[t]
        /\ pc[t] = "root_check"
        /\ root_i[t] = 2
        /\ all_files[t] # << >>
        /\ Len(all_files[t]) < Len(ExpectedOfDirs(1, Len(fs[1])))

\* The files under a root, as paths, and those whose stat succeeds.
FilesUnder(root) ==
    UNION { { << root, d, j >> : j \in 1..Len(fs[root][d]) } : d \in 1..Len(fs[root]) }

StatOk(path) == fs[path[1]][path[2]][path[3]].stat_ok

RecordsAt(files, path) == { i \in 1..Len(files) : files[i].path = path }

\* C15: a file whose stat fails gives no record and is not counted in a
\* progress report, and the scan goes on without raising: when an uncancelled
\* scan of the roots has ended every other file under them has exactly one
\* record.
C15_StatFailureSkipsTheFile ==
    \A t \in Tasks :
        /\ error[t] = None
        /\ \A i \in 1..Len(all_files[t]) : StatOk(all_files[t][i].path)
        /\ \A i \in 1..Len(records[t]) : StatOk(records[t][i].path)
        /\ \A k \in 1..Len(reports[t]) : Walking(t) =>
            reports[t][k][1] <= Cardinality({ p \in FilesUnder(directories[t][root_i[t]]) :
                                                StatOk(p) /\ p[2] < walk_i[t] })
        /\ (pc[t] = "phase_check" /\ ~observed[t]) =>
            /\ \A r \in { directories[t][k] : k \in 1..Len(directories[t]) } :
                \A p \in FilesUnder(r) :
                    Cardinality(RecordsAt(all_files[t], p)) = IF StatOk(p) THEN 1 ELSE 0
            /\ \A k \in 1..Len(progress_dir_counts) :
                progress_dir_counts[k][2] =
                    Cardinality({ p \in FilesUnder(progress_dir_counts[k][3]) : StatOk(p) })

\* An uncancelled scan has ended on a tree that holds files whose stat fails.
C15_Witness ==
    \E t \in Tasks :
        /\ pc[t] = "phase_check"
        /\ ~observed[t]
        /\ \E p \in FilesUnder(1) : ~StatOk(p)
        /\ Len(all_files[t]) < Cardinality(FilesUnder(1) \cup FilesUnder(2))

\* Task t takes a step of the loop of hash_candidates.
HashLoopStep(t) == pc[t] = "hash" /\ << pc[t], hash_i[t], all_files[t] >>' # << pc[t], hash_i[t], all_files[t] >>

\* C16: hash_candidates takes the records in input order and looks at the
\* flag before each; a step taken with the flag set ends the loop and reads
\* and writes nothing, so the records before it keep what they were given and
\* the others stay untouched. A step changes the digest of its own record
\* only, and neither the list nor the order of the candidates.
C16_HashInOrderUntilCancelled ==
    /\ [](\A t \in Tasks : pc[t] \in { "hash", "cancel_check" } =>
            LET files == all_files[t]
                to_hash == FilesToHash(files)
            IN  /\ \A k \in 1..hash_i[t] : files[to_hash[k]].sha256 = DiskDigest(files, to_hash[k])
                /\ \A k \in (hash_i[t] + 1)..Len(to_hash) : files[to_hash[k]].sha256 = None)
    /\ [][\A t \in Tasks : HashLoopStep(t) =>
            LET files == all_files[t]
                at == FilesToHash(files)[hash_i[t] + 1]
            IN  /\ Len(all_files'[t]) = Len(files)
                /\ FilesToHash(all_files'[t]) = FilesToHash(files)
                /\ IF cancelled[t]
                   THEN /\ all_files'[t] = files
                        /\ hash_i'[t] = hash_i[t]
                        /\ pc'[t] = "cancel_check"
                   ELSE /\ hash_i'[t] = hash_i[t] + 1
                        /\ \A i \in 1..Len(files) : i # at => all_files'[t][i] = files[i]
                        /\ [all_files'[t][at] EXCEPT !.sha256 = None] = files[at]
                        /\ all_files'[t][at].sha256 = DiskDigest(files, at)]_vars

\* The loop was ended by the flag after some records and before others.
C16_Witness ==
    \E t \in Tasks :
        /\ pc[t] = "cancel_check"
        /\ observed[t]
        /\ hash_i[t] > 0
        /\ hash_i[t] < Len(FilesToHash(all_files[t]))
        /\ all_files[t][FilesToHash(all_files[t])[1]].sha256 # None

\* The calls (k, n) expected after the first done of n records.
ExpectedHashReports(done, n) ==
    LET at == Ascending({ k \in 1..done : k % 20 = 0 \/ k = n })
    IN  [i \in 1..Len(at) |-> << at[i], n >>]

\* C17: over n >= 1 records hash_candidates calls the progress callback with
\* (k, n) after the k-th record exactly when k is a multiple of 20 or k = n:
\* the counts reported increase strictly, none exceeds n, and the last call
\* is (n, n) once the last record is processed.
C17_HashProgressCalls ==
    \A t \in Tasks : pc[t] \in { "hash", "cancel_check" } =>
        LET n == Len(FilesToHash(all_files[t]))
        IN  /\ reports[t] = ExpectedHashReports(hash_i[t], n)
            /\ \A i \in 1..Len(reports[t]) :
                /\ reports[t][i][1] <= n
                /\ i > 1 => reports[t][i - 1][1] < reports[t][i][1]
            /\ (n >= 1 /\ hash_i[t] = n) => reports[t][Len(reports[t])] = << n, n >>
            /\ reports[t] # << >> => progress_fraction = reports[t][Len(reports[t])]

\* All of 40 records are hashed: the calls were (20, 40) and (40, 40).
C17_Witness ==
    \E t \in Tasks :
        /\ pc[t] = "cancel_check"
        /\ hash_i[t] = 40
        /\ reports[t] = << << 20, 40 >>, << 40, 40 >> >>

\* The calls expected while count records are collected: one for each
\* multiple of 50 reached.
ExpectedScanReports(count) ==
    LET at == Ascending({ c \in 1..count : c % 50 = 0 })
    IN  [i \in 1..Len(at) |-> << at[i] >>]

\* scan_directory has returned to scan_task in task t, which has not yet
\* entered the next scan; the records it returned.
ScanReturned(t) ==
    \/ pc[t] = "root_check" /\ root_i[t] > 1
    \/ pc[t] = "phase_check"

ReturnedRecords(t) ==
    { i \in 1..Len(all_files[t]) :
        all_files[t][i].directory_root = directories[t][root_i[t] - 1] }

\* C18: scan_directory calls the progress callback with the running count
\* each time the count reaches a multiple of 50 and once more when the walk
\* has ended, by cancellation or not; the counts never decrease and the last
\* one is the number of records returned.
C18_ScanProgressCalls ==
    \A t \in Tasks :
        /\ Walking(t) => reports[t] = ExpectedScanReports(Len(records[t]))
        /\ ScanReturned(t) =>
            LET n == Cardinality(ReturnedRecords(t))
            IN  /\ reports[t] = ExpectedScanReports(n) \o << << n >> >>
                /\ reports[t][Len(reports[t])] = << n >>
                /\ \A i \in 2..Len(reports[t]) : reports[t][i - 1][1] <= reports[t][i][1]
                /\ \E k \in 1..Len(progress_dir_counts) :
                    progress_dir_counts[k] = << root_i[t] - 2, n, directories[t][root_i[t] - 1] >>

\* A scan has returned exactly 50 records: 50 was reported when it was
\* reached and again at the end.
C18_Witness ==
    \E t \in Tasks :
        /\ ScanReturned(t)
        /\ ~cancelled[t]
        /\ reports[t] = << << 50 >>, << 50 >> >>

\* The hasher is at work on the records of task t, or has been.
HasherEntered(t) == pc[t] \in { "hash", "cancel_check", "run_finished" }

\* The records among those at the indices to_hash processed after done steps.
Processed(to_hash, done) == { to_hash[k] : k \in 1..done }

GroupRoots(g) == { g.files[k].directory_root : k \in 1..Len(g.files) }
GroupDigests(g) == { g.files[k].sha256 : k \in 1..Len(g.files) }

\* C20: every group find_duplicates returns keeps the invariant of its type.
\* BINARY_DUPLICATE: one digest, not absent, shared by all members and equal
\* to the group's, and two or more roots. DIVERGED: no digest, two or more
\* roots, members that do not all share one digest. In both, each member's
\* lowercased filename is the shared name.
C20_GroupTypeInvariant ==
    \A t \in Tasks : FdReturned(t) =>
        /\ \A k \in 1..Len(BinaryGroups(t)) :
            LET g == BinaryGroups(t)[k]
            IN  /\ g.match_type = "BINARY_DUPLICATE"
                /\ g.hash_value \in Digests
                /\ GroupDigests(g) = { g.hash_value }
                /\ Cardinality(GroupRoots(g)) >= 2
                /\ \A m \in 1..Len(g.files) : LowercaseName(g.files[m].filename) = g.shared_name
                /\ \A m \in 1..Len(g.files) :
                    g.files[m].sha256 = Sha256Hex(FileAt(fs, g.files[m].path).content)
        /\ \A k \in 1..Len(DivergedGroups(t)) :
            LET g == DivergedGroups(t)[k]
            IN  /\ g.match_type = "DIVERGED"
                /\ g.hash_value = None
                /\ Cardinality(GroupRoots(g)) >= 2
                /\ Cardinality(GroupDigests(g)) >= 2
                /\ \A m \in 1..Len(g.files) : LowercaseName(g.files[m].filename) = g.shared_name

\* A binary group has been returned that holds two members from one root
\* and one from another.
C20_Witness ==
    \E t \in Tasks :
        /\ FdReturned(t)
        /\ \E k \in 1..Len(BinaryGroups(t)) :
            Len(BinaryGroups(t)[k].files) > Cardinality(GroupRoots(BinaryGroups(t)[k]))

\* The directory each spelling leads to, and the records a scan of it is to
\* produce, written out by hand.
Directory(spelling) ==
    CASE spelling \in { << "a" >>, << "a", "." >>, << "b", "..", "a" >>, << "l" >> } -> "/a"
      [] spelling \in { << "a", "s" >>, << "l", "s" >>, << "a", "s", "..", "s" >> } -> "/a/s"
      [] spelling \in { << "b" >>, << "l", "..", "b" >>,
                        << "a", "s", "..", "..", "b" >> } -> "/b"

Expected(dirpath, root, below, name, size) ==
    [ path |-> [ dir |-> dirpath, name |-> name ],
      directory_root |-> root,
      relative_path |-> [ dir |-> below, name |-> name ],
      filename |-> name,
      size |-> size,
      sha256 |-> None ]

ExpectedRecords(directory) ==
    CASE directory = "/a" ->
            << Expected(<< "a" >>, << "a" >>, << >>, << "f", "t" >>, 8),
               Expected(<< "a", "s" >>, << "a" >>, << "s" >>, << "F", "T" >>, 8) >>
      [] directory = "/a/s" ->
            << Expected(<< "a", "s" >>, << "a", "s" >>, << >>, << "F", "T" >>, 8) >>
      [] directory = "/b" ->
            << Expected(<< "b" >>, << "b" >>, << >>, << "d", "t" >>, 14) >>

\* C21: the records of a scan store the resolved root: whatever the spelling
\* of a root, its records are those of the directory it leads to, with that
\* directory's one canonical path as directory_root (equal for two spellings
\* of one directory, different for two directories), and relative_path leads
\* from directory_root to the file.
C21_RecordsStoreResolvedRoot ==
    scanned # NoValue =>
        /\ scanned[1] =
               Flatten([k \in 1..Len(selection) |->
                           ExpectedRecords(Directory(selection[k]))])
        /\ \A i \in 1..Len(scanned[1]) :
               LET r == scanned[1][i]
               IN  /\ r.directory_root \o r.relative_path.dir = r.path.dir
                   /\ r.relative_path.name = r.path.name
        /\ \A j, k \in 1..Len(selection) :
               LET of_j == { r.directory_root :
                               r \in { scan_directory(selection[j])[i] :
                                         i \in 1..Len(scan_directory(selection[j])) } }
                   of_k == { r.directory_root :
                               r \in { scan_directory(selection[k])[i] :
                                         i \in 1..Len(scan_directory(selection[k])) } }
               IN  /\ Cardinality(of_j) = 1
                   /\ (Directory(selection[j]) = Directory(selection[k])) <=> (of_j = of_k)

\* One directory was scanned under a spelling through the link and under a
\* spelling with "..", and a record of a file below the root was made.
C21_Witness ==
    /\ scanned # NoValue
    /\ selection = << << "l" >>, << "b", "..", "a" >> >>
    /\ \E i \in 1..Len(scanned[1]) : scanned[1][i].relative_path.dir = << "s" >>

\* C22: newest_file of a group with members is the first of its members
\* with the greatest modified time, oldest_file the first of those with the
\* least; both are None for a group without members.
C22_NewestAndOldest ==
    LET files == dup_group[1].files
        n == Len(files)
    IN  /\ newest # NoValue =>
            IF n = 0 THEN newest[1] = None
            ELSE /\ newest[1] \in 1..n
                 /\ \A j \in 1..n : files[j].modified <= files[newest[1]].modified
                 /\ \A j \in 1..(newest[1] - 1) :
                        files[j].modified < files[newest[1]].modified
        /\ oldest # NoValue =>
            IF n = 0 THEN oldest[1] = None
            ELSE /\ oldest[1] \in 1..n
                 /\ \A j \in 1..n : files[j].modified >= files[oldest[1]].modified
                 /\ \A j \in 1..(oldest[1] - 1) :
                        files[j].modified > files[oldest[1]].modified

\* Both properties were read on a group of three whose second and third
\* members tie for the newest.
C22_Witness ==
    /\ dup_group # NoValue
    /\ Len(dup_group[1].files) = 3
    /\ dup_group[1].files[1].modified = 1
    /\ dup_group[1].files[2].modified = 2
    /\ dup_group[1].files[3].modified = 2
    /\ newest = Some(2)
    /\ oldest = Some(1)

RECURSIVE Total(_)
\* the sum of a sequence of integers
Total(ns) == IF ns = << >> THEN 0 ELSE Head(ns) + Total(Tail(ns))

\* C23: total_reclaimable_bytes of a ScanResult is the sum, over its binary
\* groups, of the group's wasted bytes ((n - 1) times the size of the first
\* of its n >= 1 members, 0 without members), whatever its diverged groups;
\* total_binary_duplicate_count is the sum over its binary groups of n - 1.
C23_Totals ==
    totals # NoValue =>
        LET b == summary[1].binary_duplicates
        IN  /\ totals[1].reclaimable =
                   Total([k \in 1..Len(b) |->
                            IF Len(b[k].files) >= 1
                            THEN (Len(b[k].files) - 1) * b[k].files[1].size
                            ELSE 0])
            /\ totals[1].copies = Total([k \in 1..Len(b) |-> Len(b[k].files) - 1])

\* The totals were read on a result with two binary groups of three and of
\* two members and a diverged group.
C23_Witness ==
    /\ summary # NoValue
    /\ totals = Some([ reclaimable |-> 2 * 14 + 8, copies |-> 3 ])
    /\ Len(summary[1].binary_duplicates) = 2
    /\ Len(summary[1].binary_duplicates[1].files) = 3
    /\ summary[1].diverged_files # << >>

\* The records the worker holds: those of the roots done and of the root in
\* progress.
Held(t) == all_files[t] \o records[t]

\* What a worker that has the flag set may still do: leave the walk, leave
\* the loop over the roots or the phase transition by returning, leave the
\* hash loop, and return from find_duplicates.
WindingDown ==
    { << "walk", "root_check" >>, << "walk", "phase_check" >>,
      << "root_check", "run_finished" >>, << "phase_check", "run_finished" >>,
      << "hash", "cancel_check" >>, << "cancel_check", "run_finished" >> }

\* C24: the flag is never cleared; a worker whose flag is set starts no
\* further root, collects no further directory, hashes no further file and
\* classifies nothing, each of its steps brings it nearer to the return of
\* the task function, and the task function does return.
C24_BoundedResponseToCancellation ==
    /\ [][\A t \in Tasks : cancelled[t] => cancelled'[t]]_vars
    /\ [][\A t \in Tasks :
            (cancelled[t] /\ pc[t] \in { "root_check", "walk", "phase_check", "hash",
                                         "cancel_check" }) =>
                /\ Held(t)' = Held(t)
                /\ hash_i'[t] = hash_i[t]
                /\ fd_ret'[t] \in { fd_ret[t], Some(NoGroups) }
                /\ pc'[t] = pc[t] \/ << pc[t], pc'[t] >> \in WindingDown
                /\ pc'[t] = pc[t] => << walk_i[t], root_i[t] >>' = << walk_i[t], root_i[t] >>]_vars
    /\ \A t \in Tasks : cancelled[t] ~> (pc[t] = "run_finished")

\* The flag was set while files were being hashed: the loop stopped with
\* files left and the task function returned.
C24_Witness ==
    /\ cancelled[1]
    /\ pc[1] = "run_finished"
    /\ fd_ret[1] = Some(NoGroups)
    /\ hash_i[1] > 0
    /\ hash_i[1] < Len(FilesToHash(all_files[1]))

GroupLists == { "binary_duplicates", "diverged_files" }

\* C25: after delete_selected, every group shown in the group list has at
\* least two members, also after the filter has been changed.
C25_ShownGroupsHaveTwoMembers ==
    last_delete # NoValue =>
        \A k \in 1..Len(list_groups) :
            Len(GroupAt(list_result[1], list_groups[k]).files) >= 2

\* C26: after delete_selected, no group of the result lists a record of a
\* file that is in the trash, and every group still lists its records of
\* the files that are not.
C26_TrashedFilesLeaveEveryGroup ==
    last_delete # NoValue =>
        \A list \in GroupLists :
            \A k \in 1..Len(list_result[1][list]) :
                LET now == list_result[1][list][k].files
                    before == ResultOf(fs)[list][k].files
                IN  /\ \A m \in 1..Len(now) : now[m].path \notin trash
                    /\ \A m \in 1..Len(before) :
                           before[m].path \notin trash =>
                               \E n \in 1..Len(now) : now[n] = before[m]

\* The task function of t has not yet returned or raised / _run has got
\* past the statement that follows the return or the raise.
BeforeReturn(t) == pc[t] \in { "idle" } \cup InTaskFn
PastReturn(t) == pc[t] \in { "run_signal", "run_error", "done" }

\* C27: is_finished is false until the task function has returned or raised
\* and true from then on; it never reverts; it is true when a terminal
\* callback of the task is scheduled and when it runs; once the task function
\* has returned or raised it does become true, and the progress poll comes to
\* a stop.
C27_FinishedFlag ==
    /\ [](\A t \in Tasks :
            /\ BeforeReturn(t) => ~finished[t]
            /\ PastReturn(t) => finished[t]
            /\ handed[t] # << >> => finished[t])
    /\ [][\A t \in Tasks :
            /\ finished[t] => finished'[t]
            /\ delivered'[t] # delivered[t] => finished[t]]_vars
    /\ \A t \in Tasks : (pc[t] \in { "run_finished", "run_except" }) ~> finished[t]
    /\ <>[](poll_timers = 0)

\* on_error of a task has run, and so has on_complete of another.
C27_Witness ==
    /\ delivered[1] = << "on_error" >>
    /\ delivered[2] = << "on_complete" >>
    /\ finished[1]
    /\ finished[2]
    /\ poll_timers = 0

\* What a terminal callback writes: the installed result, the status line,
\* the current task and the buttons.
Outcome == << scan_result, status_label, current_task, button >>

\* C28: once _cancel_scan has run for a task, no terminal callback of that
\* task takes effect: when one runs, the installed result, the status line,
\* the current task and the buttons stay as they are.
C28_CancelledTaskHasNoEffect ==
    [][\A t \in Tasks :
          (cancelled[t] /\ delivered'[t] # delivered[t]) => Outcome' = Outcome]_vars

\* C29: at most one progress-poll timer is pending at any time.
C29_OnePollTimer == poll_timers <= 1

\* No two members of a list of records are records of one file.
DistinctFiles(files) ==
    \A i, j \in 1..Len(files) : i # j => files[i].path # files[j].path

\* C30: whatever two or three roots are selected, the records handed to the
\* analyzer are records of pairwise distinct files, so are the members of
\* every group, and total_files is the number of files scanned.
C30_NoFileCountedTwice ==
    /\ scanned # NoValue => DistinctFiles(scanned[1])
    /\ analysed # NoValue =>
        /\ \A list \in GroupLists :
               \A k \in 1..Len(analysed[1][list]) :
                   DistinctFiles(analysed[1][list][k].files)
        /\ analysed[1].total_files =
               Cardinality({ scanned[1][i].path : i \in 1..Len(scanned[1]) })

====
